---- MODULE Spec2Model ----
(***************************************************************************)
(* The analyze route (POST /api/analyze) of customgpt-advanced-vision:     *)
(* request parsing, normalizeUploads, buildImageInputs (the per-upload     *)
(* delivery loop with its storage calls), the model call and the response; *)
(* the uploads route (POST /api/uploads) that mints blob upload tokens;    *)
(* and the page's upload widget and response viewer.                       *)
(*                                                                         *)
(* Representation.                                                         *)
(*  - A JavaScript string is a sequence of tokens (short TLA+ strings); "" *)
(*    is <<>>.  The token " " is whitespace, "/" is a slash; trimming,     *)
(*    lower-casing, extname and the two regular expressions of the route   *)
(*    are computed on the tokens.                                          *)
(*  - A JavaScript value is a tagged record: Undef, Null, Str(s), Num(n),  *)
(*    Buf(b64), Obj.  A Buffer is identified by its canonical base64 text  *)
(*    (a string), and its length is the decoded length of that text.       *)
(***************************************************************************)
EXTENDS Integers, Sequences, FiniteSets, TLC

(***************************************************************************)
(* JavaScript values                                                       *)
(***************************************************************************)
Undef == [t |-> "undefined"]
Null == [t |-> "null"]
Str(s) == [t |-> "string", s |-> s]
Num(n) == [t |-> "number", n |-> n]
Buf(b64) == [t |-> "buffer", b64 |-> b64]
PlainObj == [t |-> "object"]

IsStr(v) == v.t = "string"
IsNum(v) == v.t = "number"
IsBuf(v) == v.t = "buffer"
Nullish(v) == v.t \in {"undefined", "null"}

\* a ?? b
Coalesce(a, b) == IF Nullish(a) THEN b ELSE a

\* Boolean(v)
Truthy(v) ==
  CASE v.t = "string" -> v.s # <<>>
    [] v.t = "number" -> v.n # 0
    [] v.t \in {"undefined", "null"} -> FALSE
    [] OTHER -> TRUE

\* a || b
OrElse(a, b) == IF Truthy(a) THEN a ELSE b

(***************************************************************************)
(* Strings                                                                 *)
(***************************************************************************)
RECURSIVE TrimStart(_)
TrimStart(s) ==
  IF s # <<>> /\ Head(s) = " " THEN TrimStart(Tail(s)) ELSE s

RECURSIVE TrimEnd(_)
TrimEnd(s) ==
  IF s # <<>> /\ s[Len(s)] = " " THEN TrimEnd(SubSeq(s, 1, Len(s) - 1)) ELSE s

\* String.prototype.trim
Trim(s) == TrimEnd(TrimStart(s))

RECURSIVE StripLeadingSlashes(_)
StripLeadingSlashes(s) ==
  IF s # <<>> /\ Head(s) = "/" THEN StripLeadingSlashes(Tail(s)) ELSE s

RECURSIVE StripTrailingSlashes(_)
StripTrailingSlashes(s) ==
  IF s # <<>> /\ s[Len(s)] = "/"
  THEN StripTrailingSlashes(SubSeq(s, 1, Len(s) - 1))
  ELSE s

\* trimSlashes: value.replace(/^\/+|\/+$/g, "") on a string, the value itself otherwise
trimSlashes(v) ==
  IF IsStr(v) THEN Str(StripTrailingSlashes(StripLeadingSlashes(v.s))) ELSE v

\* toLowerCase of one token
LowerTok(tok) ==
  CASE tok = "DATA:" -> "data:"
    [] tok = ";BASE64," -> ";base64,"
    [] tok = "IMAGE/PNG" -> "image/png"
    [] tok = ".PNG" -> ".png"
    [] tok = "VERCEL-STORAGE.COM" -> "vercel-storage.com"
    [] OTHER -> tok

\* String.prototype.toLowerCase
ToLowerCase(s) == [k \in 1..Len(s) |-> LowerTok(s[k])]

\* The tokens that are a file extension (a dot followed by letters).
ExtTokens == {".png", ".PNG", ".jpg", ".jpeg", ".webp", ".tif", ".tiff", ".gif"}

\* path.extname: the last extension of a name that has a non-empty stem
extname(s) ==
  IF Len(s) >= 2 /\ s[Len(s)] \in ExtTokens THEN <<s[Len(s)]>> ELSE <<>>

\* The decimal text of a small ordinal, for `upload-${index + 1}`.
OrdinalTok(n) == <<"1", "2", "3", "4", "5", "6", "7", "8", "9">>[n]

(***************************************************************************)
(* Constants of src/lib/uploads/constants                                  *)
(***************************************************************************)
MAX_UPLOAD_BYTES == 47185920
MAX_UPLOAD_COUNT == 6

\* MIME_LOOKUP[ext]
MIME_LOOKUP(ext) ==
  CASE ext = <<".png">> -> Str(<<"image/png">>)
    [] ext = <<".jpg">> -> Str(<<"image/jpeg">>)
    [] ext = <<".jpeg">> -> Str(<<"image/jpeg">>)
    [] ext = <<".webp">> -> Str(<<"image/webp">>)
    [] ext = <<".tif">> -> Str(<<"image/tiff">>)
    [] ext = <<".tiff">> -> Str(<<"image/tiff">>)
    [] OTHER -> Undef

\* EXT_LOOKUP_BY_MIME[mimeType]
EXT_LOOKUP_BY_MIME(mime) ==
  CASE mime = Str(<<"image/png">>) -> Str(<<"png">>)
    [] mime = Str(<<"image/jpeg">>) -> Str(<<"jpg">>)
    [] mime = Str(<<"image/webp">>) -> Str(<<"webp">>)
    [] mime = Str(<<"image/tiff">>) -> Str(<<"tiff">>)
    [] OTHER -> Undef

(***************************************************************************)
(* Base64 text and buffers                                                 *)
(***************************************************************************)
\* The number of bytes one base64 token decodes to.  "AAAA" is three zero
\* bytes, "AQID" the bytes 1 2 3, "UVVF" the text QUE, "ICAg" three spaces;
\* "MID64" stands for a text that decodes to 8 MB, "BIG64" for one that decodes
\* to one byte more than the cap.
B64TokBytes(tok) ==
  CASE tok = "AAAA" -> 3
    [] tok = "AQID" -> 3
    [] tok = "UVVF" -> 3
    [] tok = "ICAg" -> 3
    [] tok = "MID64" -> 8388608
    [] tok = "BIG64" -> MAX_UPLOAD_BYTES + 1
    [] OTHER -> 0

RECURSIVE B64Bytes(_)
B64Bytes(s) == IF s = <<>> THEN 0 ELSE B64TokBytes(Head(s)) + B64Bytes(Tail(s))

\* buffer.length
BufferLength(buf) == B64Bytes(buf.b64)

\* Buffer.from(text, "base64"): what is not base64 text is skipped.
BufferFromBase64(s) == Buf(SelectSeq(s, LAMBDA tok : B64TokBytes(tok) > 0))

\* buffer.toString("base64")
BufferToBase64(buf) == buf.b64

\* bufferToDataUrl(buffer, mimeType)
bufferToDataUrl(buffer, mimeType) ==
  Str(<<"data:">> \o mimeType.s \o <<";base64,">> \o BufferToBase64(buffer))

(***************************************************************************)
(* Upload descriptors and errors                                           *)
(***************************************************************************)
\* A raw upload descriptor with every field absent.
EmptyDescriptor ==
  [t |-> "object", name |-> Undef, detail |-> Undef, dataUrl |-> Undef,
   url |-> Undef, s3Key |-> Undef, blobPathname |-> Undef, blobPath |-> Undef,
   buffer |-> Undef, bytes |-> Undef, size |-> Undef, mimeType |-> Undef,
   type |-> Undef]

\* new Error(message): the message template and the text interpolated into it.
Err(kind, subject) == [kind |-> kind, subject |-> subject]

\* A normalized upload with every optional field absent.
EmptyNormalized ==
  [id |-> <<>>, name |-> <<>>, detail |-> Undef, buffer |-> Undef,
   mimeType |-> Undef, bytes |-> Undef, dataUrl |-> Undef,
   blobPathname |-> Undef, remoteUrl |-> Undef, s3Key |-> Undef]

(***************************************************************************)
(* normalizeUploads                                                        *)
(***************************************************************************)
\* The tokens that hold a ';'.
SemiTokens == {";base64,", ";BASE64,", ";base32,", ";charset=utf-8"}

\* The index of the first token at or after k that holds a ';' (Len + 1 if none).
RECURSIVE FirstSemi(_, _)
FirstSemi(s, k) ==
  IF k > Len(s) THEN k
  ELSE IF s[k] \in SemiTokens THEN k ELSE FirstSemi(s, k + 1)

\* /^data:(?<mime>[^;]+);base64,(?<data>.+)$/i.exec(dataUrl)
DataUrlMatch(s) ==
  LET k == FirstSemi(s, 2) IN
  IF /\ Len(s) >= 1
     /\ LowerTok(s[1]) = "data:"
     /\ k >= 3
     /\ k < Len(s)
     /\ LowerTok(s[k]) = ";base64,"
  THEN [matched |-> TRUE, mime |-> SubSeq(s, 2, k - 1),
        data |-> SubSeq(s, k + 1, Len(s))]
  ELSE [matched |-> FALSE, mime |-> <<>>, data |-> <<>>]

\* RemoteUrlOf, were a blank remote URL taken as a source.
RemoteUrlOfUntrimmed(upload) == IF IsStr(upload.url) THEN upload.url.s ELSE <<>>

\* Lines 273-274: const remoteUrl
RemoteUrlOf(upload) == IF IsStr(upload.url) THEN Trim(upload.url.s) ELSE <<>>

\* Lines 293-298: const reportedBytes
ReportedBytes(upload) ==
  IF IsNum(upload.bytes) THEN upload.bytes
  ELSE IF IsNum(upload.size) THEN upload.size ELSE Undef

\* ExplicitMime, were the client-supplied MIME fields not read.
ExplicitMimeIgnored(upload) == Undef

\* Lines 299-304: const explicitMime
ExplicitMime(upload) ==
  IF IsStr(upload.mimeType) THEN Str(ToLowerCase(upload.mimeType.s))
  ELSE IF IsStr(upload.type) THEN Str(ToLowerCase(upload.type.s))
       ELSE Undef

\* The body of the .map callback: one descriptor at 0-based position index.
NormalizeOne(upload, index) ==
  IF Nullish(upload) \/ (~Nullish(upload.name) /\ ~IsStr(upload.name))
  THEN [ok |-> FALSE, error |-> Err("TypeError", <<>>)]
  ELSE
  LET ordinal == OrdinalTok(index + 1)
      id == <<"upload-", ordinal>>
      trimmedName == IF IsStr(upload.name) THEN Str(Trim(upload.name.s)) ELSE Undef
      name == OrElse(trimmedName, Str(<<"Uploaded image ", ordinal>>)).s
      detail == Coalesce(upload.detail, Str(<<"high">>))
      dataUrl == IF IsStr(upload.dataUrl) THEN Trim(upload.dataUrl.s) ELSE <<>>
      remoteUrl == RemoteUrlOf(upload)
      s3Key == IF IsStr(upload.s3Key)
               THEN trimSlashes(Str(Trim(upload.s3Key.s)))
               ELSE Undef
      blobPathname ==
        IF IsStr(upload.blobPathname)
        THEN trimSlashes(Str(Trim(upload.blobPathname.s)))
        ELSE IF IsStr(upload.blobPath)
             THEN trimSlashes(Str(Trim(upload.blobPath.s)))
             ELSE Undef
      bufferCandidate == IF IsBuf(upload.buffer) THEN upload.buffer ELSE Null
      reportedBytes == ReportedBytes(upload)
      explicitMime == ExplicitMime(upload)
      shownName == Coalesce(upload.name, Str(<<"#", ordinal>>)).s
      base == [EmptyNormalized EXCEPT !.id = id, !.name = name,
                                      !.detail = detail,
                                      !.blobPathname = blobPathname]
  IN
  IF Truthy(bufferCandidate)
  THEN
    LET bytes == Coalesce(reportedBytes, Num(BufferLength(bufferCandidate)))
        ext == ToLowerCase(extname(name))
        inferredMime ==
          Coalesce(Coalesce(explicitMime, MIME_LOOKUP(ext)),
                   Str(<<"application/octet-stream">>))
    IN
    IF bytes.n > MAX_UPLOAD_BYTES
    THEN [ok |-> FALSE, error |-> Err("exceeds-limit", shownName)]
    ELSE [ok |-> TRUE,
          v |-> [base EXCEPT !.buffer = bufferCandidate,
                             !.mimeType = inferredMime,
                             !.bytes = bytes,
                             !.dataUrl = OrElse(Str(dataUrl), Undef)]]
  ELSE IF dataUrl # <<>>
  THEN
    LET dataUrlMatch == DataUrlMatch(dataUrl)
        buffer == BufferFromBase64(dataUrlMatch.data)
    IN
    IF ~dataUrlMatch.matched
    THEN [ok |-> FALSE, error |-> Err("invalid-data-url", <<"#", ordinal>>)]
    ELSE IF BufferLength(buffer) > MAX_UPLOAD_BYTES
    THEN [ok |-> FALSE, error |-> Err("exceeds-limit", shownName)]
    ELSE [ok |-> TRUE,
          v |-> [base EXCEPT !.dataUrl = Str(dataUrl),
                             !.buffer = buffer,
                             !.mimeType = Str(ToLowerCase(dataUrlMatch.mime)),
                             !.bytes = Num(BufferLength(buffer))]]
  ELSE IF remoteUrl # <<>>
  THEN [ok |-> TRUE,
        v |-> [base EXCEPT !.remoteUrl = Str(remoteUrl),
                           !.bytes = reportedBytes,
                           !.mimeType = explicitMime]]
  ELSE IF Truthy(s3Key)
  THEN [ok |-> TRUE,
        v |-> [base EXCEPT !.s3Key = s3Key,
                           !.bytes = reportedBytes,
                           !.mimeType = explicitMime]]
  ELSE [ok |-> FALSE, error |-> Err("no-source", name)]

\* SliceUploads, were the list not truncated.
SliceUploadsAll(uploads) == uploads

\* uploads.slice(0, MAX_UPLOAD_COUNT)
SliceUploads(uploads) ==
  SubSeq(uploads, 1, IF Len(uploads) < MAX_UPLOAD_COUNT
                     THEN Len(uploads) ELSE MAX_UPLOAD_COUNT)

\* The .map of lines 268-390 from position k on: the callbacks run in order,
\* and the first one that throws ends the call.
RECURSIVE MapFrom(_, _, _)
MapFrom(kept, k, done) ==
  IF k > Len(kept)
  THEN [ok |-> TRUE, list |-> done, error |-> Err("none", <<>>)]
  ELSE LET r == NormalizeOne(kept[k], k - 1) IN
       IF r.ok
       THEN MapFrom(kept, k + 1, Append(done, r.v))
       ELSE [ok |-> FALSE, list |-> <<>>, error |-> r.error]

\* normalizeUploads, were every descriptor of the list validated before the
\* list is cut.
normalizeUploadsValidatingAll(uploads) ==
  LET all == MapFrom(uploads, 1, <<>>) IN
  IF all.ok THEN [all EXCEPT !.list = SliceUploads(all.list)] ELSE all

\* normalizeUploads(uploads): the list, or the error of the first descriptor
\* whose callback throws.
normalizeUploads(uploads) == MapFrom(SliceUploads(uploads), 1, <<>>)

(***************************************************************************)
(* Object storage                                                          *)
(***************************************************************************)
\* randomUUID(): the n-th identifier drawn in a request.
UuidTok(n) ==
  <<"uuid-1", "uuid-2", "uuid-3", "uuid-4", "uuid-5", "uuid-6", "uuid-7", "uuid-8",
    "uuid-9">>[n]

\* The key uploadBufferToS3 generates: prefix/folder/uuid.extension, with the
\* default AWS_UPLOAD_PREFIX and AWS_SCHEMATICS_FOLDER.
OffloadKey(mimeType, n) ==
  LET extension == Coalesce(EXT_LOOKUP_BY_MIME(mimeType), Str(<<"bin">>))
  IN Str(<<"vision-uploads", "/", "schematics", "/", UuidTok(n), ".">> \o extension.s)

\* The URL getSignedUrl returns for a key.
SignedUrl(key) == Str(<<"https://bucket.s3/">> \o key.s \o <<"?X-Amz-Signature">>)

NoCall == [op |-> "none", upload |-> 0, key |-> Undef]

(***************************************************************************)
(* buildImageInputs: the stages of one iteration of the upload loop        *)
(***************************************************************************)
EmptySummary ==
  [id |-> <<>>, name |-> <<>>, bytes |-> Undef, mimeType |-> Undef,
   strategy |-> Undef, url |-> Undef, key |-> Undef, blobPathname |-> Undef]

\* The locals of an iteration: imageUrlPayload, strategy, summary.
NoLocals == [imageUrlPayload |-> Undef, strategy |-> Undef, summary |-> EmptySummary]

\* /vercel-storage\.com/i.test(url)
IsBlobUrl(url) == \E k \in 1..Len(url) : LowerTok(url[k]) = "vercel-storage.com"

\* Lines 475-487: the locals and the summary's id, name, bytes and mimeType.
StartLocals(upload) ==
  [imageUrlPayload |-> Undef, strategy |-> Undef,
   summary |-> [EmptySummary EXCEPT
                  !.id = upload.id,
                  !.name = upload.name,
                  !.bytes = IF IsNum(upload.bytes) THEN upload.bytes ELSE Undef,
                  !.mimeType = IF IsStr(upload.mimeType) THEN upload.mimeType ELSE Undef]]

\* RemoteStage, were only the recognized storage URLs passed through.
RemoteStageBlobOnly(upload, loc) ==
  IF Truthy(upload.remoteUrl) /\ IsBlobUrl(upload.remoteUrl.s)
  THEN [imageUrlPayload |-> upload.remoteUrl, strategy |-> Str(<<"vercel-blob">>),
        summary |-> [loc.summary EXCEPT !.strategy = Str(<<"vercel-blob">>),
                                        !.url = upload.remoteUrl]]
  ELSE loc

\* RemoteStage, were the passthrough variant chosen by the presence of a blob
\* pathname instead of by the URL.
RemoteStageByPathname(upload, loc) ==
  IF Truthy(upload.remoteUrl)
  THEN LET strategy == IF Truthy(upload.blobPathname)
                       THEN Str(<<"vercel-blob">>) ELSE Str(<<"remote-url">>)
       IN [imageUrlPayload |-> upload.remoteUrl, strategy |-> strategy,
           summary |-> [loc.summary EXCEPT !.strategy = strategy,
                                           !.url = upload.remoteUrl]]
  ELSE loc

\* Lines 489-498: remote URL passthrough.
RemoteStage(upload, loc) ==
  IF Truthy(upload.remoteUrl)
  THEN LET strategy == IF IsBlobUrl(upload.remoteUrl.s)
                       THEN Str(<<"vercel-blob">>) ELSE Str(<<"remote-url">>)
       IN [imageUrlPayload |-> upload.remoteUrl, strategy |-> strategy,
           summary |-> [loc.summary EXCEPT
                          !.strategy = strategy,
                          !.url = upload.remoteUrl,
                          !.blobPathname = IF Truthy(upload.blobPathname)
                                           THEN upload.blobPathname ELSE @]]
  ELSE loc

\* SignedStage, were the strategy not written to the summary.
SignedStageUntagged(loc, tag, key, url) ==
  IF Truthy(url)
  THEN [imageUrlPayload |-> url, strategy |-> Str(<<tag>>),
        summary |-> [loc.summary EXCEPT !.key = key, !.url = url]]
  ELSE loc

\* Lines 503-509 and 529-535: a signed URL was obtained.
SignedStage(loc, tag, key, url) ==
  IF Truthy(url)
  THEN [imageUrlPayload |-> url, strategy |-> Str(<<tag>>),
        summary |-> [loc.summary EXCEPT !.strategy = Str(<<tag>>),
                                        !.key = key, !.url = url]]
  ELSE loc

\* Lines 544-556: inline fallback.
InlineStage(upload, loc) ==
  IF ~Truthy(loc.imageUrlPayload)
  THEN LET inlineDataUrl ==
             OrElse(upload.dataUrl,
                    IF Truthy(upload.buffer) /\ Truthy(upload.mimeType)
                    THEN bufferToDataUrl(upload.buffer, upload.mimeType)
                    ELSE Null)
       IN IF Truthy(inlineDataUrl)
          THEN [imageUrlPayload |-> inlineDataUrl, strategy |-> Str(<<"inline">>),
                summary |-> [loc.summary EXCEPT !.strategy = Str(<<"inline">>)]]
          ELSE loc
  ELSE loc

\* Line 500: the storage-key stage applies.
NeedsKeySigning(upload, loc) == ~Truthy(loc.imageUrlPayload) /\ Truthy(upload.s3Key)

\* Line 522: the offload stage applies.
NeedsOffload(upload, loc, s3Client) ==
  ~Truthy(loc.imageUrlPayload) /\ Truthy(upload.buffer) /\ s3Client

\* Lines 570-578: the label and the image reference of an upload.
UploadContents(upload, loc) ==
  << [type |-> "input_text", text |-> <<"Uploaded ">> \o upload.id \o <<": ">> \o upload.name,
      image_url |-> Undef, detail |-> Undef],
     [type |-> "input_image", text |-> <<>>,
      image_url |-> loc.imageUrlPayload, detail |-> upload.detail] >>

(***************************************************************************)
(* State                                                                   *)
(***************************************************************************)
VARIABLES
  env,               \* process.env at start: [apiKey, s3Client] (s3Client # null)
  req,               \* the request being handled
  pc,                \* the handler's position
  question,          \* POST: question
  uploadPayloads,    \* POST: uploadPayloads, the argument of buildImageInputs
  normalizedUploads, \* buildImageInputs: normalizedUploads
  idx,               \* buildImageInputs: 1-based position of the upload loop
  loc,               \* buildImageInputs: imageUrlPayload, strategy, summary
  contents,          \* buildImageInputs: contents
  uploadSummaries,   \* buildImageInputs: uploadSummaries
  inflight,          \* the storage call being awaited
  s3Log,             \* history: the storage calls completed, in order
  nextUuid,          \* history: how many identifiers randomUUID has drawn, plus 1
  thrown,            \* the error thrown inside the try block
  modelCalls,        \* history: the user content of each responses.create call
  response,          \* the response of the handler
  \* POST /api/uploads
  blobEnv,           \* process.env.BLOB_READ_WRITE_TOKEN, as set
  uploadsReq,        \* the request being handled: [parses, body]
  uploadsPc,         \* the handler's position
  blobUuid,          \* history: how many identifiers buildPathname has drawn, plus 1
  tokenCalls,        \* history: the calls of generateClientTokenFromReadWriteToken
  uploadsResponse,   \* the response of the handler
  \* The page
  uploads,           \* useState: the attached uploads
  isUploadingFiles,  \* useState
  uploadError,       \* useState
  change,            \* the locals of the running handleUploadChange
  blobPuts,          \* history: the puts to blob storage that completed
  nextId,            \* history: how many identifiers the page has drawn, plus 1
  events,            \* history: how many selections and removals were made
  pageResponse,      \* useState: response
  pageError          \* useState: error

analyzeVars == <<env, req, pc, question, uploadPayloads, normalizedUploads, idx,
                 loc, contents, uploadSummaries, inflight, s3Log, nextUuid, thrown,
                 modelCalls, response>>
uploadsVars == <<blobEnv, uploadsReq, uploadsPc, blobUuid, tokenCalls, uploadsResponse>>
pageVars == <<uploads, isUploadingFiles, uploadError, change, blobPuts, nextId,
              events, pageResponse, pageError>>

vars == <<analyzeVars, uploadsVars, pageVars>>

NoError == Err("none", <<>>)
NoResponse == [kind |-> "none"]

postVars == <<question, uploadPayloads, modelCalls, response>>
storageVars == <<inflight, s3Log, nextUuid>>
outputVars == <<contents, uploadSummaries>>

(***************************************************************************)
(* buildImageInputs                                                        *)
(***************************************************************************)
\* Normalize, were the descriptors that precede the first invalid one
\* processed instead of the call failing at once.
NormalizeValidPrefix ==
  /\ pc = "build"
  /\ LET valid == {n \in 0..Len(uploadPayloads) :
                    normalizeUploads(SubSeq(uploadPayloads, 1, n)).ok}
         longest == CHOOSE n \in valid : \A m \in valid : m <= n
     IN normalizedUploads' = normalizeUploads(SubSeq(uploadPayloads, 1, longest)).list
  /\ pc' = "loop"
  /\ thrown' = thrown
  /\ idx' = 1
  /\ UNCHANGED <<uploadsVars, pageVars, env, req, loc, postVars, storageVars, outputVars>>

\* Lines 446-448.  schematicConfig.images is empty (src/config/schematic), so
\* the loop over the static images (lines 451-472) adds nothing.
Normalize ==
  /\ pc = "build"
  /\ LET r == normalizeUploads(uploadPayloads) IN
     IF r.ok
     THEN /\ normalizedUploads' = r.list
          /\ pc' = "loop"
          /\ thrown' = thrown
     ELSE /\ normalizedUploads' = normalizedUploads
          /\ pc' = "threw"
          /\ thrown' = r.error
  /\ idx' = 1
  /\ UNCHANGED <<uploadsVars, pageVars, env, req, loc, postVars, storageVars, outputVars>>

InLoop == pc = "loop" /\ idx <= Len(normalizedUploads)

\* The locals when the iteration reaches its first await (or its end).
LoopEntryLocals(upload) == RemoteStage(upload, StartLocals(upload))

\* FinishIteration, were the summary and the label/image pair put at the front
\* of their lists.
FinishIterationPrepending(upload, l) ==
  LET l2 == InlineStage(upload, l) IN
  /\ loc' = NoLocals
  /\ IF Truthy(l2.imageUrlPayload)
     THEN /\ uploadSummaries' = <<l2.summary>> \o uploadSummaries
          /\ normalizedUploads' =
               [normalizedUploads EXCEPT
                  ![idx].buffer = IF Truthy(@) THEN Undef ELSE @]
          /\ contents' = UploadContents(upload, l2) \o contents
          /\ idx' = idx + 1
          /\ pc' = "loop"
          /\ thrown' = thrown
     ELSE /\ thrown' = Err("no-image-url", upload.name)
          /\ pc' = "threw"
          /\ UNCHANGED <<uploadSummaries, normalizedUploads, contents, idx>>

\* FinishIteration, were lines 566-568 absent: the buffer stays on the upload.
FinishIterationKeepingBuffer(upload, l) ==
  LET l2 == InlineStage(upload, l) IN
  /\ loc' = NoLocals
  /\ IF Truthy(l2.imageUrlPayload)
     THEN /\ uploadSummaries' = Append(uploadSummaries, l2.summary)
          /\ normalizedUploads' = normalizedUploads
          /\ contents' = contents \o UploadContents(upload, l2)
          /\ idx' = idx + 1
          /\ pc' = "loop"
          /\ thrown' = thrown
     ELSE /\ thrown' = Err("no-image-url", upload.name)
          /\ pc' = "threw"
          /\ UNCHANGED <<uploadSummaries, normalizedUploads, contents, idx>>

\* Lines 544-578: inline fallback, the final check, the pushes.
FinishIteration(upload, l) ==
  LET l2 == InlineStage(upload, l) IN
  /\ loc' = NoLocals
  /\ IF Truthy(l2.imageUrlPayload)
     THEN /\ uploadSummaries' = Append(uploadSummaries, l2.summary)
          /\ normalizedUploads' =
               [normalizedUploads EXCEPT
                  ![idx].buffer = IF Truthy(@) THEN Undef ELSE @]
          /\ contents' = contents \o UploadContents(upload, l2)
          /\ idx' = idx + 1
          /\ pc' = "loop"
          /\ thrown' = thrown
     ELSE /\ thrown' = Err("no-image-url", upload.name)
          /\ pc' = "threw"
          /\ UNCHANGED <<uploadSummaries, normalizedUploads, contents, idx>>

\* An iteration whose upload carries a remote URL: no storage call.
DeliverRemoteUrl ==
  /\ InLoop
  /\ LET upload == normalizedUploads[idx]
         l == LoopEntryLocals(upload)
     IN /\ Truthy(l.imageUrlPayload)
        /\ FinishIteration(upload, l)
  /\ UNCHANGED <<uploadsVars, pageVars, env, req, postVars, storageVars>>

\* An iteration that reaches the inline stage without any storage call.
DeliverInline ==
  /\ InLoop
  /\ LET upload == normalizedUploads[idx]
         l == LoopEntryLocals(upload)
     IN /\ ~Truthy(l.imageUrlPayload)
        /\ ~NeedsKeySigning(upload, l)
        /\ ~NeedsOffload(upload, l, env.s3Client)
        /\ FinishIteration(upload, l)
  /\ UNCHANGED <<uploadsVars, pageVars, env, req, postVars, storageVars>>

\* SignKeyNoClient, were the upload skipped instead of the request aborted.
SignKeyNoClientSkipping ==
  /\ InLoop
  /\ LET upload == normalizedUploads[idx]
         l == LoopEntryLocals(upload)
     IN /\ NeedsKeySigning(upload, l)
        /\ ~env.s3Client
        /\ thrown' = thrown
  /\ pc' = "loop"
  /\ idx' = idx + 1
  /\ UNCHANGED <<uploadsVars, pageVars, env, req, normalizedUploads, loc, postVars, storageVars,
                 outputVars>>

\* createSignedUrlForKey without a client throws (line 429); the catch of
\* lines 510-519 rethrows.
SignKeyNoClient ==
  /\ InLoop
  /\ LET upload == normalizedUploads[idx]
         l == LoopEntryLocals(upload)
     IN /\ NeedsKeySigning(upload, l)
        /\ ~env.s3Client
        /\ thrown' = Err("s3-load-failed", upload.name)
  /\ pc' = "threw"
  /\ UNCHANGED <<uploadsVars, pageVars, env, req, normalizedUploads, idx, loc, postVars, storageVars,
                 outputVars>>

\* createSignedUrlForKey: getSignedUrl is called (lines 433-441).
SignKeyStart ==
  /\ InLoop
  /\ LET upload == normalizedUploads[idx]
         l == LoopEntryLocals(upload)
     IN /\ NeedsKeySigning(upload, l)
        /\ env.s3Client
        /\ loc' = l
        /\ inflight' = [op |-> "sign", upload |-> idx, key |-> trimSlashes(upload.s3Key)]
  /\ pc' = "signKey"
  /\ UNCHANGED <<uploadsVars, pageVars, env, req, normalizedUploads, idx, postVars, s3Log, nextUuid,
                 thrown, outputVars>>

\* SignKeyComplete, were the signing error of a storage key swallowed like the
\* offload error: the iteration goes on to the inline stage.
SignKeyCompleteSwallowing ==
  /\ pc = "signKey"
  /\ \E ok \in BOOLEAN :
       /\ s3Log' = Append(s3Log, [op |-> "sign", upload |-> idx,
                                  key |-> inflight.key, ok |-> ok])
       /\ FinishIteration(normalizedUploads[idx],
            IF ok
            THEN SignedStage(loc, "s3-key", inflight.key, SignedUrl(inflight.key))
            ELSE loc)
  /\ inflight' = NoCall
  /\ UNCHANGED <<uploadsVars, pageVars, env, req, postVars, nextUuid>>

\* getSignedUrl for a storage key returns or throws (lines 502-519).
SignKeyComplete ==
  /\ pc = "signKey"
  /\ \E ok \in BOOLEAN :
       /\ s3Log' = Append(s3Log, [op |-> "sign", upload |-> idx,
                                  key |-> inflight.key, ok |-> ok])
       /\ IF ok
          THEN FinishIteration(normalizedUploads[idx],
                 SignedStage(loc, "s3-key", inflight.key, SignedUrl(inflight.key)))
          ELSE /\ thrown' = Err("s3-load-failed", normalizedUploads[idx].name)
               /\ pc' = "threw"
               /\ UNCHANGED <<normalizedUploads, idx, loc, outputVars>>
  /\ inflight' = NoCall
  /\ UNCHANGED <<uploadsVars, pageVars, env, req, postVars, nextUuid>>

\* OffloadStart, were uploadBufferToS3 not awaited: put-object is sent and the
\* iteration goes on at once.
OffloadStartNotAwaited ==
  /\ InLoop
  /\ LET upload == normalizedUploads[idx]
         l == LoopEntryLocals(upload)
     IN /\ ~NeedsKeySigning(upload, l)
        /\ NeedsOffload(upload, l, env.s3Client)
        /\ inflight' = [op |-> "put", upload |-> idx,
                        key |-> OffloadKey(upload.mimeType, nextUuid)]
        /\ FinishIteration(upload, l)
  /\ nextUuid' = nextUuid + 1
  /\ UNCHANGED <<uploadsVars, pageVars, env, req, postVars, s3Log>>

\* uploadBufferToS3: the key is generated and put-object is sent (lines 398-414).
OffloadStart ==
  /\ InLoop
  /\ LET upload == normalizedUploads[idx]
         l == LoopEntryLocals(upload)
     IN /\ ~NeedsKeySigning(upload, l)
        /\ NeedsOffload(upload, l, env.s3Client)
        /\ loc' = l
        /\ inflight' = [op |-> "put", upload |-> idx,
                        key |-> OffloadKey(upload.mimeType, nextUuid)]
  /\ nextUuid' = nextUuid + 1
  /\ pc' = "put"
  /\ UNCHANGED <<uploadsVars, pageVars, env, req, normalizedUploads, idx, postVars, s3Log, thrown,
                 outputVars>>

\* PutComplete, were a failed put-object sent a second time before the
\* iteration falls back to inline.
PutCompleteRetrying ==
  /\ pc = "put"
  /\ \E ok \in BOOLEAN :
       /\ s3Log' = Append(s3Log, [op |-> "put", upload |-> idx,
                                  key |-> inflight.key, ok |-> ok])
       /\ IF ok
          THEN /\ inflight' = [inflight EXCEPT !.op = "sign"]
               /\ pc' = "signOffload"
               /\ UNCHANGED <<normalizedUploads, idx, loc, thrown, outputVars>>
          ELSE IF \A i \in 1..Len(s3Log) : s3Log[i].upload # idx
          THEN /\ inflight' = inflight
               /\ pc' = "put"
               /\ UNCHANGED <<normalizedUploads, idx, loc, thrown, outputVars>>
          ELSE /\ inflight' = NoCall
               /\ FinishIteration(normalizedUploads[idx], loc)
  /\ UNCHANGED <<uploadsVars, pageVars, env, req, postVars, nextUuid>>

\* put-object returns, and getSignedUrl is called (lines 416-423), or it
\* throws, the catch of lines 536-541 logs, and the iteration goes on inline.
PutComplete ==
  /\ pc = "put"
  /\ \E ok \in BOOLEAN :
       /\ s3Log' = Append(s3Log, [op |-> "put", upload |-> idx,
                                  key |-> inflight.key, ok |-> ok])
       /\ IF ok
          THEN /\ inflight' = [inflight EXCEPT !.op = "sign"]
               /\ pc' = "signOffload"
               /\ UNCHANGED <<normalizedUploads, idx, loc, thrown, outputVars>>
          ELSE /\ inflight' = NoCall
               /\ FinishIteration(normalizedUploads[idx], loc)
  /\ UNCHANGED <<uploadsVars, pageVars, env, req, postVars, nextUuid>>

\* getSignedUrl for the offloaded object returns (lines 529-535) or throws
\* (lines 536-541).
OffloadSignComplete ==
  /\ pc = "signOffload"
  /\ \E ok \in BOOLEAN :
       /\ s3Log' = Append(s3Log, [op |-> "sign", upload |-> idx,
                                  key |-> inflight.key, ok |-> ok])
       /\ FinishIteration(normalizedUploads[idx],
            IF ok
            THEN SignedStage(loc, "s3", inflight.key, SignedUrl(inflight.key))
            ELSE loc)
  /\ inflight' = NoCall
  /\ UNCHANGED <<uploadsVars, pageVars, env, req, postVars, nextUuid>>

\* Lines 581-584: the loop is over, { contents, uploadSummaries } is returned.
LoopDone ==
  /\ pc = "loop"
  /\ idx > Len(normalizedUploads)
  /\ pc' = "built"
  /\ UNCHANGED <<uploadsVars, pageVars, env, req, normalizedUploads, idx, loc, postVars, storageVars,
                 thrown, outputVars>>

BuildNext ==
  \/ Normalize
  \/ DeliverRemoteUrl
  \/ DeliverInline
  \/ SignKeyNoClient
  \/ SignKeyStart
  \/ SignKeyComplete
  \/ OffloadStart
  \/ PutComplete
  \/ OffloadSignComplete
  \/ LoopDone

(***************************************************************************)
(* POST: reading the request                                               *)
(***************************************************************************)
\* A response of the handler.  kind "json" is NextResponse.json(body, {status});
\* kind "unhandled" is an exception that leaves the handler.
Resp(kind, status, error, details, uploadsAttached, summaries) ==
  [kind |-> kind, status |-> status, error |-> error, details |-> details,
   uploadsAttached |-> uploadsAttached, uploadSummaries |-> summaries]

ErrorResponse(status, error, details) ==
  Resp("json", status, error, details, 0, <<>>)

\* value.prop of a parsed JSON value: undefined on a primitive or an array.
Prop(value, name) ==
  IF value.t = "object" /\ name \in DOMAIN value THEN value[name] ELSE Undef

\* formData.get(key): the first value of the key, or null.
RECURSIVE FormGet(_, _)
FormGet(fd, key) ==
  IF fd = <<>> THEN Null
  ELSE IF Head(fd).key = key THEN Head(fd).value ELSE FormGet(Tail(fd), key)

\* Lines 657-662: the entries whose value is a File, in order.
FileEntries(fd) == SelectSeq(fd, LAMBDA e : e.value.t = "file")

\* file.text(): the bytes of the file as text.
FileText(file) ==
  CASE file.b64 = <<"UVVF">> -> <<"QUE">>
    [] file.b64 = <<"ICAg">> -> <<" ", " ", " ">>
    [] file.b64 = <<>> -> <<>>
    [] OTHER -> <<"binary">>

\* JSON.parse of the uploadsMeta field.  "META-OBJ" is the text of an object
\* keyed by field name and by file name, "META-ARR" the text of an array,
\* "META-NUM" the text of a number; any other text does not parse.
MetaDocument ==
  [t |-> "object",
   file1 |-> [t |-> "object", name |-> Str(<<" ", "Site", ".PNG">>),
              detail |-> Str(<<"low">>), mimeType |-> Str(<<"IMAGE/PNG", " ">>)],
   scan |-> [t |-> "object", name |-> Str(<<" ">>), detail |-> Num(1),
             mimeType |-> Str(<<" ">>)],
   file2 |-> Num(7)]

JsonParseMeta(text) ==
  CASE text = <<"META-OBJ">> -> [ok |-> TRUE, value |-> MetaDocument]
    [] text = <<"META-ARR">> -> [ok |-> TRUE, value |-> [t |-> "array"]]
    [] text = <<"META-NUM">> -> [ok |-> TRUE, value |-> Num(7)]
    [] OTHER -> [ok |-> FALSE, value |-> Undef]

\* uploadsMeta[key] where the key is a string: the model's property names are
\* single tokens.
MetaLookup(uploadsMeta, key) ==
  IF Len(key) = 1 THEN Prop(uploadsMeta, key[1]) ELSE Undef

\* Lines 647-655.
ParseUploadsMeta(fd) ==
  LET metaField == FormGet(fd, "uploadsMeta")
      parsed == JsonParseMeta(metaField.s)
  IN IF IsStr(metaField) /\ Len(Trim(metaField.s)) > 0 /\ parsed.ok
     THEN parsed.value
     ELSE PlainObj

\* Lines 673-709: the descriptor built for one non-empty file.
FileDescriptor(entry, index, uploadsMeta, defaultDetail) ==
  LET file == entry.value
      buffer == Buf(file.b64)
      metaSource ==
        IF Truthy(uploadsMeta) /\ uploadsMeta.t = "object"
        THEN Coalesce(MetaLookup(uploadsMeta, <<entry.key>>),
                      MetaLookup(uploadsMeta, file.name))
        ELSE Undef
      meta == IF Truthy(metaSource) /\ metaSource.t = "object"
              THEN metaSource ELSE PlainObj
      metaDetail == Prop(meta, "detail")
      metaName == Prop(meta, "name")
      metaMime == Prop(meta, "mimeType")
      detail == IF IsStr(metaDetail) THEN metaDetail
                ELSE Coalesce(defaultDetail, Str(<<"high">>))
      displayName ==
        IF IsStr(metaName) /\ Len(Trim(metaName.s)) > 0
        THEN Str(Trim(metaName.s))
        ELSE OrElse(Str(file.name), Str(<<"Uploaded image ", OrdinalTok(index + 1)>>))
      ext == ToLowerCase(extname(displayName.s))
      rawMime ==
        OrElse(OrElse(IF IsStr(metaMime) /\ Len(Trim(metaMime.s)) > 0
                      THEN Str(Trim(metaMime.s)) ELSE Str(file.type),
                      MIME_LOOKUP(ext)),
               Str(<<"application/octet-stream">>))
      mimeType == IF IsStr(rawMime) /\ Len(rawMime.s) > 0
                  THEN Str(ToLowerCase(Trim(rawMime.s)))
                  ELSE Str(<<"application/octet-stream">>)
  IN [EmptyDescriptor EXCEPT !.name = displayName, !.detail = detail,
                             !.buffer = buffer, !.mimeType = mimeType,
                             !.bytes = Num(BufferLength(buffer))]

\* Lines 664-711: the loop over the file entries; empty files are skipped.
RECURSIVE FileDescriptors(_, _, _, _)
FileDescriptors(entries, index, uploadsMeta, defaultDetail) ==
  IF entries = <<>> THEN <<>>
  ELSE IF BufferLength(Buf(Head(entries).value.b64)) = 0
       THEN FileDescriptors(Tail(entries), index, uploadsMeta, defaultDetail)
       ELSE <<FileDescriptor(Head(entries), index, uploadsMeta, defaultDetail)>>
            \o FileDescriptors(Tail(entries), index + 1, uploadsMeta, defaultDetail)

\* Lines 633-640: the question of a multipart request.
MultipartQuestion(fd) ==
  LET promptField == Coalesce(FormGet(fd, "prompt"), FormGet(fd, "question"))
  IN IF IsStr(promptField) THEN Trim(promptField.s)
     ELSE IF promptField.t = "file" THEN Trim(FileText(promptField))
     ELSE <<>>

\* Lines 642-645.
DefaultDetail(fd) ==
  IF IsStr(FormGet(fd, "detail")) THEN Str(Trim(FormGet(fd, "detail").s)) ELSE Undef

\* Line 723: body.prompt?.trim() throws a TypeError when body is null or when
\* prompt is neither nullish nor a string.
JsonPromptThrows(body) ==
  \/ Nullish(body)
  \/ ~Nullish(Prop(body, "prompt")) /\ ~IsStr(Prop(body, "prompt"))

\* Line 723: body.prompt?.trim() ?? ""
JsonQuestion(body) ==
  IF IsStr(Prop(body, "prompt")) THEN Trim(Prop(body, "prompt").s) ELSE <<>>

\* Lines 724-726.
JsonUploads(body) ==
  IF Prop(body, "uploads").t = "array" THEN Prop(body, "uploads").items ELSE <<>>

(***************************************************************************)
(* POST                                                                    *)
(***************************************************************************)
buildVars == <<normalizedUploads, idx, loc, inflight, s3Log, nextUuid,
               contents, uploadSummaries>>

\* Lines 608-615.
RejectNoApiKey ==
  /\ pc = "start"
  /\ ~env.apiKey
  /\ response' = ErrorResponse(500, "OPENAI_API_KEY is not configured on the server.",
                               NoError)
  /\ pc' = "done"
  /\ UNCHANGED <<uploadsVars, pageVars, env, req, question, uploadPayloads, modelCalls, thrown, buildVars>>

\* Lines 621-631: req.formData() throws.
ParseMultipartFail ==
  /\ pc = "start"
  /\ env.apiKey
  /\ req.mode = "multipart"
  /\ ~req.parses
  /\ response' = ErrorResponse(400, "Invalid multipart form payload.", NoError)
  /\ pc' = "done"
  /\ UNCHANGED <<uploadsVars, pageVars, env, req, question, uploadPayloads, modelCalls, thrown, buildVars>>

\* Lines 621-711.
ParseMultipart ==
  /\ pc = "start"
  /\ env.apiKey
  /\ req.mode = "multipart"
  /\ req.parses
  /\ question' = MultipartQuestion(req.form)
  /\ uploadPayloads' = FileDescriptors(FileEntries(req.form), 0,
                                       ParseUploadsMeta(req.form),
                                       DefaultDetail(req.form))
  /\ pc' = "prompt"
  /\ UNCHANGED <<uploadsVars, pageVars, env, req, modelCalls, response, thrown, buildVars>>

\* Lines 713-721: req.json() throws.
ParseJsonFail ==
  /\ pc = "start"
  /\ env.apiKey
  /\ req.mode = "json"
  /\ ~req.parses
  /\ response' = ErrorResponse(400, "Invalid JSON payload.", NoError)
  /\ pc' = "done"
  /\ UNCHANGED <<uploadsVars, pageVars, env, req, question, uploadPayloads, modelCalls, thrown, buildVars>>

\* Lines 713-726.
ParseJson ==
  /\ pc = "start"
  /\ env.apiKey
  /\ req.mode = "json"
  /\ req.parses
  /\ ~JsonPromptThrows(req.body)
  /\ question' = JsonQuestion(req.body)
  /\ uploadPayloads' = JsonUploads(req.body)
  /\ pc' = "prompt"
  /\ UNCHANGED <<uploadsVars, pageVars, env, req, modelCalls, response, thrown, buildVars>>

\* Line 723 throws outside the try block of lines 736-798: the exception
\* leaves the handler.
ParseJsonThrows ==
  /\ pc = "start"
  /\ env.apiKey
  /\ req.mode = "json"
  /\ req.parses
  /\ JsonPromptThrows(req.body)
  /\ response' = Resp("unhandled", 500, "", Err("TypeError", <<>>), 0, <<>>)
  /\ pc' = "done"
  /\ UNCHANGED <<uploadsVars, pageVars, env, req, question, uploadPayloads, modelCalls, thrown, buildVars>>

\* Lines 729-734.
RejectEmptyPrompt ==
  /\ pc = "prompt"
  /\ question = <<>>
  /\ response' = ErrorResponse(400, "Prompt is required.", NoError)
  /\ pc' = "done"
  /\ UNCHANGED <<uploadsVars, pageVars, env, req, question, uploadPayloads, modelCalls, thrown, buildVars>>

\* Lines 736-740: the try block is entered and buildImageInputs is called.
EnterTry ==
  /\ pc = "prompt"
  /\ question # <<>>
  /\ pc' = "build"
  /\ UNCHANGED <<uploadsVars, pageVars, env, req, postVars, thrown, buildVars>>

\* Lines 742-773: responses.create is called with the question and the contents.
CallModel ==
  /\ pc = "built"
  /\ modelCalls' = Append(modelCalls, [question |-> question, images |-> contents])
  /\ pc' = "model"
  /\ UNCHANGED <<uploadsVars, pageVars, env, req, question, uploadPayloads, response, thrown, buildVars>>

\* The number of input_image items of the contents (lines 782-784).
UploadsAttached(items) ==
  Cardinality({k \in 1..Len(items) : items[k].type = "input_image"})

\* Lines 775-786: responses.create returns; or it throws.
ModelComplete ==
  /\ pc = "model"
  /\ \E ok \in BOOLEAN :
       IF ok
       THEN /\ response' = Resp("json", 200, "", NoError,
                                UploadsAttached(contents), uploadSummaries)
            /\ pc' = "done"
            /\ thrown' = thrown
       ELSE /\ thrown' = Err("model-failed", <<>>)
            /\ pc' = "threw"
            /\ response' = response
  /\ UNCHANGED <<uploadsVars, pageVars, env, req, question, uploadPayloads, modelCalls, buildVars>>

\* CatchError, were the objects the request has put removed before the error
\* response.
CatchErrorCleaningUp ==
  /\ pc = "threw"
  /\ response' = ErrorResponse(500, "Vision request failed.", thrown)
  /\ pc' = "done"
  /\ s3Log' = SelectSeq(s3Log, LAMBDA call : call.op # "put")
  /\ UNCHANGED <<uploadsVars, pageVars, env, req, question, uploadPayloads, modelCalls, thrown,
                 normalizedUploads, idx, loc, inflight, nextUuid, contents,
                 uploadSummaries>>

\* Lines 787-798: the catch block.
CatchError ==
  /\ pc = "threw"
  /\ response' = ErrorResponse(500, "Vision request failed.", thrown)
  /\ pc' = "done"
  /\ UNCHANGED <<uploadsVars, pageVars, env, req, question, uploadPayloads, modelCalls, thrown, buildVars>>

PostNext ==
  \/ RejectNoApiKey
  \/ ParseMultipartFail
  \/ ParseMultipart
  \/ ParseJsonFail
  \/ ParseJson
  \/ ParseJsonThrows
  \/ RejectEmptyPrompt
  \/ EnterTry
  \/ CallModel
  \/ ModelComplete
  \/ CatchError

(***************************************************************************)
(* The uploads route (POST /api/uploads, src/app/api/uploads/route.js)     *)
(***************************************************************************)
\* sanitizeEnv: value.trim().replace(/^['"]|['"]$/g, "") on a string,
\* undefined otherwise.
sanitizeEnv(value) ==
  IF IsStr(value)
  THEN LET quotes == {"'", "\""}
           t == Trim(value.s)
           a == IF t # <<>> /\ Head(t) \in quotes THEN Tail(t) ELSE t
           b == IF a # <<>> /\ a[Len(a)] \in quotes
                THEN SubSeq(a, 1, Len(a) - 1) ELSE a
       IN Str(b)
  ELSE Undef

\* deduceMimeFromName(filename)
deduceMimeFromName(filename) ==
  IF ~IsStr(filename) \/ filename.s = <<>>
  THEN Undef
  ELSE MIME_LOOKUP(ToLowerCase(extname(filename.s)))

\* Line 21.
BLOB_READ_WRITE_TOKEN == sanitizeEnv(blobEnv)

\* Line 23: the keys of EXT_LOOKUP_BY_MIME.
SUPPORTED_MIME_TYPES ==
  {Str(<<"image/png">>), Str(<<"image/jpeg">>), Str(<<"image/webp">>),
   Str(<<"image/tiff">>)}

\* buildPathname(extension), with the n-th identifier of randomUUID, and with
\* neither prefix nor folder set in the environment (lines 13-20).
buildPathname(extension, n) ==
  LET BLOB_PREFIX == Str(<<"vision-uploads">>)
      BLOB_FOLDER == Str(<<"schematics">>)
      uuid == "blob-" \o ToString(n)
      segments == SelectSeq(<<trimSlashes(BLOB_PREFIX), trimSlashes(BLOB_FOLDER),
                              Str(<<uuid, ".">> \o extension.s)>>,
                            LAMBDA seg : Truthy(seg))
  IN Str(segments[1].s \o <<"/">> \o segments[2].s \o <<"/">> \o segments[3].s)

\* Line 53.
BodyFilename(body) ==
  IF IsStr(Prop(body, "filename")) THEN Str(Trim(Prop(body, "filename").s))
  ELSE Str(<<>>)

\* Lines 54-55.
BodyContentType(body) ==
  IF IsStr(Prop(body, "contentType")) THEN Str(Trim(Prop(body, "contentType").s))
  ELSE Str(<<>>)

\* Lines 56-59 (every number of a parsed JSON body is finite).
BodySize(body) ==
  IF IsNum(Prop(body, "size")) THEN Prop(body, "size") ELSE Undef

\* InferredMime, were the file name looked at before the content type.
InferredMimeFromNameFirst(body) ==
  OrElse(OrElse(deduceMimeFromName(BodyFilename(body)), BodyContentType(body)),
         Str(<<"application/octet-stream">>))

\* Lines 79-82.
InferredMime(body) ==
  OrElse(OrElse(BodyContentType(body), deduceMimeFromName(BodyFilename(body))),
         Str(<<"application/octet-stream">>))

\* Lines 95-98.
Extension(body) ==
  LET ext == extname(BodyFilename(body).s)
      withoutDot ==
        IF ext = <<>> THEN <<>>
        ELSE CASE ext[1] = ".png" -> <<"png">>
               [] ext[1] = ".PNG" -> <<"PNG">>
               [] ext[1] = ".jpg" -> <<"jpg">>
               [] ext[1] = ".jpeg" -> <<"jpeg">>
               [] ext[1] = ".webp" -> <<"webp">>
               [] ext[1] = ".tif" -> <<"tif">>
               [] ext[1] = ".tiff" -> <<"tiff">>
               [] OTHER -> <<"gif">>
  IN OrElse(OrElse(EXT_LOOKUP_BY_MIME(InferredMime(body)), Str(withoutDot)),
            Str(<<"bin">>))

\* Line 68: size && size > MAX_UPLOAD_BYTES
TooLarge(body) ==
  Truthy(BodySize(body)) /\ BodySize(body).n > MAX_UPLOAD_BYTES

NoUploadsResponse == [kind |-> "none"]

\* NextResponse.json(body, {status}) of the uploads route.
UploadsResp(status, error, token, pathname, contentType) ==
  [kind |-> "json", status |-> status, error |-> error, token |-> token,
   pathname |-> pathname, contentType |-> contentType]

UploadsError(status, error) == UploadsResp(status, error, Undef, Undef, Undef)

\* Lines 36-41.
UploadsRejectNoToken ==
  /\ uploadsPc = "start"
  /\ ~Truthy(BLOB_READ_WRITE_TOKEN)
  /\ uploadsResponse' =
       UploadsError(500, "BLOB_READ_WRITE_TOKEN is not configured on the server.")
  /\ uploadsPc' = "done"
  /\ UNCHANGED <<analyzeVars, pageVars, blobEnv, uploadsReq, blobUuid, tokenCalls>>

\* Lines 43-51: req.json() throws.
UploadsParseFail ==
  /\ uploadsPc = "start"
  /\ Truthy(BLOB_READ_WRITE_TOKEN)
  /\ ~uploadsReq.parses
  /\ uploadsResponse' = UploadsError(400, "Invalid JSON payload.")
  /\ uploadsPc' = "done"
  /\ UNCHANGED <<analyzeVars, pageVars, blobEnv, uploadsReq, blobUuid, tokenCalls>>

\* Lines 53-66.
UploadsRejectNoFilename ==
  /\ uploadsPc = "start"
  /\ Truthy(BLOB_READ_WRITE_TOKEN)
  /\ uploadsReq.parses
  /\ ~Truthy(BodyFilename(uploadsReq.body))
  /\ uploadsResponse' = UploadsError(400, "filename is required.")
  /\ uploadsPc' = "done"
  /\ UNCHANGED <<analyzeVars, pageVars, blobEnv, uploadsReq, blobUuid, tokenCalls>>

\* Lines 68-77.
UploadsRejectTooLarge ==
  /\ uploadsPc = "start"
  /\ Truthy(BLOB_READ_WRITE_TOKEN)
  /\ uploadsReq.parses
  /\ Truthy(BodyFilename(uploadsReq.body))
  /\ TooLarge(uploadsReq.body)
  /\ uploadsResponse' = UploadsError(400, "File exceeds the 45MB limit.")
  /\ uploadsPc' = "done"
  /\ UNCHANGED <<analyzeVars, pageVars, blobEnv, uploadsReq, blobUuid, tokenCalls>>

\* Lines 79-93.
UploadsRejectUnsupported ==
  /\ uploadsPc = "start"
  /\ Truthy(BLOB_READ_WRITE_TOKEN)
  /\ uploadsReq.parses
  /\ Truthy(BodyFilename(uploadsReq.body))
  /\ ~TooLarge(uploadsReq.body)
  /\ InferredMime(uploadsReq.body) \notin SUPPORTED_MIME_TYPES
  /\ uploadsResponse' = UploadsError(400, "Unsupported content type.")
  /\ uploadsPc' = "done"
  /\ UNCHANGED <<analyzeVars, pageVars, blobEnv, uploadsReq, blobUuid, tokenCalls>>

\* Lines 95-110: the pathname is built and the token generator is called.
UploadsMintStart ==
  /\ uploadsPc = "start"
  /\ Truthy(BLOB_READ_WRITE_TOKEN)
  /\ uploadsReq.parses
  /\ Truthy(BodyFilename(uploadsReq.body))
  /\ ~TooLarge(uploadsReq.body)
  /\ InferredMime(uploadsReq.body) \in SUPPORTED_MIME_TYPES
  /\ tokenCalls' = Append(tokenCalls,
       [token |-> BLOB_READ_WRITE_TOKEN,
        pathname |-> buildPathname(Extension(uploadsReq.body), blobUuid),
        maximumSizeInBytes |-> MAX_UPLOAD_BYTES,
        allowedContentTypes |-> SUPPORTED_MIME_TYPES])
  /\ blobUuid' = blobUuid + 1
  /\ uploadsPc' = "mint"
  /\ UNCHANGED <<analyzeVars, pageVars, blobEnv, uploadsReq, uploadsResponse>>

\* Lines 112-123: the generator returns the token, or it throws.
UploadsMintComplete ==
  /\ uploadsPc = "mint"
  /\ LET pathname == tokenCalls[Len(tokenCalls)].pathname IN
     \E ok \in BOOLEAN :
       uploadsResponse' =
         IF ok
         THEN UploadsResp(200, "", Str(<<"vercel_blob_client_">> \o pathname.s),
                          pathname,
                          InferredMime(uploadsReq.body))
         ELSE UploadsError(500, "Failed to generate blob upload token.")
  /\ uploadsPc' = "done"
  /\ UNCHANGED <<analyzeVars, pageVars, blobEnv, uploadsReq, blobUuid, tokenCalls>>

UploadsNext ==
  \/ UploadsRejectNoToken
  \/ UploadsParseFail
  \/ UploadsRejectNoFilename
  \/ UploadsRejectTooLarge
  \/ UploadsRejectUnsupported
  \/ UploadsMintStart
  \/ UploadsMintComplete

(***************************************************************************)
(* The page (src/app/page.jsx): the upload widget and the response viewer  *)
(***************************************************************************)
MAX_UPLOAD_MB == 12
PAGE_MAX_UPLOAD_COUNT == 6

\* The URL put() returns for a pathname.
BlobUrlOf(pathname) ==
  Str(<<"https://", "x.public.blob.", "vercel-storage.com", "/">> \o pathname.s)

\* The most selections that start uploading, and the most removals, of a page
\* session.
MaxSelections == 2
MaxRemovals == 1

\* The files of the longest selection: two such selections overflow the slots.
MaxSelected == PAGE_MAX_UPLOAD_COUNT - 2

\* The files a user can select: name, type and size of a File.
GoodFile == [name |-> <<"plan", ".png">>, type |-> <<"image/png">>, size |-> 3]

\* The selections of a change event: no file, one file (typed, untyped, of an
\* unsupported type, too large), and the longest list.
Selections ==
  { <<>>,
    <<GoodFile>>,
    << [name |-> <<"scan", ".PNG">>, type |-> <<>>, size |-> 8388608] >>,
    << [name |-> <<"anim", ".gif">>, type |-> <<"image/gif">>, size |-> 3] >>,
    << [name |-> <<"wide", ".tiff">>, type |-> <<"image/tiff">>,
        size |-> MAX_UPLOAD_MB * 1024 * 1024 + 1] >>,
    [k \in 1..MaxSelected |-> GoodFile] }

\* No handleUploadChange is running.  (A change event without a file list
\* returns at lines 117-120 and changes nothing.)
NoChange ==
  [step |-> "idle", files |-> <<>>, pos |-> 1, successfulUploads |-> <<>>,
   firstError |-> Null, tokenPayload |-> Null, resolvedMime |-> Str(<<>>)]

\* The change event can be delivered: the file input is enabled (line 265).
InputEnabled == ~isUploadingFiles /\ change.step = "idle"

\* SliceFiles, were the selection not cut to the remaining slots.
SliceFilesAll(fileList, remainingSlots) == fileList

\* Line 131: Array.from(fileList).slice(0, remainingSlots)
SliceFiles(fileList, remainingSlots) ==
  SubSeq(fileList, 1, IF Len(fileList) < remainingSlots
                      THEN Len(fileList) ELSE remainingSlots)

\* Lines 132-134: some file of the selection is larger than MAX_UPLOAD_MB.
HasOversize(files) ==
  \E k \in 1..Len(files) : files[k].size > MAX_UPLOAD_MB * 1024 * 1024

\* Lines 122-129: no slot is left.
ChangeNoSlots ==
  \E fileList \in Selections :
    /\ InputEnabled
    /\ PAGE_MAX_UPLOAD_COUNT - Len(uploads) <= 0
    /\ uploadError' = Str(<<"Maximum of 6 images attached at a time.">>)
    /\ UNCHANGED <<analyzeVars, uploadsVars, uploads, isUploadingFiles, change,
                   blobPuts, nextId, events, pageResponse, pageError>>

\* Lines 131-142: a file of the selection is too large.
ChangeOversize ==
  \E fileList \in Selections :
    /\ InputEnabled
    /\ LET remainingSlots == PAGE_MAX_UPLOAD_COUNT - Len(uploads) IN
       /\ remainingSlots > 0
       /\ HasOversize(SliceFiles(fileList, remainingSlots))
    /\ uploadError' = Str(<<"File is larger than 12MB.">>)
    /\ UNCHANGED <<analyzeVars, uploadsVars, uploads, isUploadingFiles, change,
                   blobPuts, nextId, events, pageResponse, pageError>>

\* Lines 131-149: the selection is accepted and the loop over its files starts.
ChangeStart ==
  \E fileList \in Selections :
    /\ InputEnabled
    /\ events.selections < MaxSelections
    /\ LET remainingSlots == PAGE_MAX_UPLOAD_COUNT - Len(uploads) IN
       /\ remainingSlots > 0
       /\ ~HasOversize(SliceFiles(fileList, remainingSlots))
       /\ change' = [NoChange EXCEPT !.step = "loop",
                                     !.files = SliceFiles(fileList, remainingSlots)]
    /\ uploadError' = Null
    /\ isUploadingFiles' = TRUE
    /\ events' = [events EXCEPT !.selections = @ + 1]
    /\ UNCHANGED <<analyzeVars, uploadsVars, uploads, blobPuts, nextId,
                   pageResponse, pageError>>

\* requestBlobUploadToken(file), lines 33-45: the request to /api/uploads.
RequestToken ==
  /\ change.step = "loop"
  /\ change.pos <= Len(change.files)
  /\ LET file == change.files[change.pos] IN
     uploadsReq' = [parses |-> TRUE,
                    body |-> [t |-> "object", filename |-> Str(file.name),
                              contentType |-> Str(file.type),
                              size |-> Num(file.size)]]
  /\ uploadsPc' = "start"
  /\ uploadsResponse' = NoUploadsResponse
  /\ change' = [change EXCEPT !.step = "token"]
  /\ UNCHANGED <<analyzeVars, blobEnv, blobUuid, tokenCalls, uploads,
                 isUploadingFiles, uploadError, blobPuts, nextId, events,
                 pageResponse, pageError>>

\* Lines 46-51 and 152-162: the route has answered; an error answer is thrown
\* and caught at lines 173-180, a token answer starts the put.
TokenReplied ==
  /\ change.step = "token"
  /\ uploadsPc = "done"
  /\ LET file == change.files[change.pos]
         payload == uploadsResponse
     IN IF payload.status # 200
        THEN change' = [change EXCEPT
                          !.step = "loop",
                          !.pos = @ + 1,
                          !.firstError = IF Truthy(@) THEN @
                                          ELSE Str(<<payload.error>>)]
        ELSE change' = [change EXCEPT
                          !.step = "put",
                          !.tokenPayload = payload,
                          !.resolvedMime =
                            Str(ToLowerCase(OrElse(OrElse(payload.contentType,
                                                          Str(file.type)),
                                                   Str(<<>>)).s))]
  /\ uploadsPc' = "idle"
  /\ UNCHANGED <<analyzeVars, blobEnv, uploadsReq, blobUuid, tokenCalls,
                 uploadsResponse, uploads, isUploadingFiles, uploadError,
                 blobPuts, nextId, events, pageResponse, pageError>>

\* Lines 158-180: put() returns the blob and the upload is recorded, or it
\* throws and the error is kept.
BlobPutComplete ==
  /\ change.step = "put"
  /\ LET file == change.files[change.pos]
         payload == change.tokenPayload
         blob == [url |-> BlobUrlOf(payload.pathname), pathname |-> payload.pathname]
     IN \E ok \in BOOLEAN :
          IF ok
          THEN /\ blobPuts' = Append(blobPuts, blob)
               /\ change' = [change EXCEPT
                    !.step = "loop",
                    !.pos = @ + 1,
                    !.tokenPayload = Null,
                    !.successfulUploads = Append(@,
                       [id |-> "id-" \o ToString(nextId),
                        name |-> Str(file.name),
                        size |-> Num(file.size),
                        detail |-> Str(<<"high">>),
                        url |-> blob.url,
                        blobPathname |-> blob.pathname,
                        mimeType |-> OrElse(OrElse(change.resolvedMime,
                                                   payload.contentType),
                                            Str(file.type))])]
               /\ nextId' = nextId + 1
          ELSE /\ change' = [change EXCEPT
                    !.step = "loop",
                    !.pos = @ + 1,
                    !.tokenPayload = Null,
                    !.firstError =
                       IF Truthy(@) THEN @
                       ELSE Str(<<"Failed to upload file to storage.">>)]
               /\ UNCHANGED <<blobPuts, nextId>>
  /\ UNCHANGED <<analyzeVars, uploadsVars, uploads, isUploadingFiles, uploadError,
                 events, pageResponse, pageError>>

\* Lines 182-191: the loop is over.
ChangeFinish ==
  /\ change.step = "loop"
  /\ change.pos > Len(change.files)
  /\ isUploadingFiles' = FALSE
  /\ uploads' = IF Len(change.successfulUploads) > 0
                THEN uploads \o change.successfulUploads
                ELSE uploads
  /\ uploadError' = change.firstError
  /\ change' = NoChange
  /\ UNCHANGED <<analyzeVars, uploadsVars, blobPuts, nextId, events,
                 pageResponse, pageError>>

\* handleRemoveUpload(id), lines 194-196.
handleRemoveUpload(id) ==
  /\ uploads' = SelectSeq(uploads, LAMBDA upload : upload.id # id)
  /\ events' = [events EXCEPT !.removals = @ + 1]
  /\ UNCHANGED <<analyzeVars, uploadsVars, isUploadingFiles, uploadError, change,
                 blobPuts, nextId, pageResponse, pageError>>

\* The Remove button of an attached upload is clicked (lines 295-301).
RemoveUpload ==
  /\ events.removals < MaxRemovals
  /\ \E k \in 1..Len(uploads) : handleRemoveUpload(uploads[k].id)

\* Line 496: the label of an upload summary in the response viewer.
TelemetryLabel(summary) ==
  IF summary.strategy = Str(<<"s3">>) THEN "S3 offload" ELSE "Inline"

\* Lines 482-503: the "Upload handling" rows of a response, in order.
UploadHandling(result) ==
  [k \in 1..Len(result.uploadSummaries) |->
     [id |-> result.uploadSummaries[k].id,
      name |-> result.uploadSummaries[k].name,
      label |-> TelemetryLabel(result.uploadSummaries[k])]]

\* Lines 96-109 of handleSubmit: the answer of /api/analyze arrives; an answer
\* that is not ok, or has no JSON body, sets the error.
ReceiveResponse ==
  /\ pc = "done"
  /\ pageResponse = Null
  /\ pageError = Null
  /\ IF response.kind = "json" /\ response.status = 200
     THEN /\ pageResponse' = response
          /\ pageError' = pageError
     ELSE /\ pageError' = Str(<<IF response.kind = "json" THEN response.error
                                ELSE "Unexpected token">>)
          /\ pageResponse' = pageResponse
  /\ UNCHANGED <<analyzeVars, uploadsVars, uploads, isUploadingFiles, uploadError,
                 change, blobPuts, nextId, events>>

(***************************************************************************)
(* Inputs                                                                  *)
(***************************************************************************)
\* The longest upload list (and file list) a request carries.
MaxUploads == 2

\* The longest of the upload lists that exceed MAX_UPLOAD_COUNT.
MaxLongUploads == 7

PlanName == Str(<<"plan", ".png">>)
SmallDataUrl == Str(<<"data:", "image/png", ";base64,", "AAAA">>)
PaddedDataUrl == Str(<<" ", "DATA:", "IMAGE/PNG", ";BASE64,", "AQID", " ">>)
TruncatedDataUrl == Str(<<"data:", "image/png", ";base64,">>)
BigDataUrl == Str(<<"data:", "image/png", ";base64,", "BIG64">>)
PlainUrl == Str(<<"https://", "example.com", "/a.png">>)
BlobUrl == Str(<<" ", "https://", "x.public.blob.", "VERCEL-STORAGE.COM", "/a.png">>)
StoredKey == Str(<<"/", "schematics", "/", "k1.png", "/">>)
SmallBuffer == Buf(<<"AAAA">>)
BigBuffer == Buf(<<"BIG64">>)

\* The descriptors a JSON request can carry (JSON holds no Buffer).
JsonDescriptors ==
  { Null,
    [EmptyDescriptor EXCEPT !.name = PlanName],
    [EmptyDescriptor EXCEPT !.name = Num(5), !.dataUrl = SmallDataUrl],
    [EmptyDescriptor EXCEPT !.name = PlanName, !.dataUrl = SmallDataUrl],
    [EmptyDescriptor EXCEPT !.dataUrl = PaddedDataUrl, !.detail = Str(<<"low">>),
                            !.type = Str(<<"image/webp">>)],
    [EmptyDescriptor EXCEPT !.name = PlanName, !.dataUrl = TruncatedDataUrl],
    [EmptyDescriptor EXCEPT !.name = PlanName, !.dataUrl = BigDataUrl],
    [EmptyDescriptor EXCEPT !.name = PlanName, !.dataUrl = SmallDataUrl,
                            !.bytes = Num(MAX_UPLOAD_BYTES + 1)],
    [EmptyDescriptor EXCEPT !.dataUrl = SmallDataUrl, !.url = PlainUrl],
    [EmptyDescriptor EXCEPT !.dataUrl = SmallDataUrl, !.s3Key = StoredKey],
    [EmptyDescriptor EXCEPT !.name = Str(<<" ", "B", " ">>), !.url = PlainUrl],
    [EmptyDescriptor EXCEPT !.url = PlainUrl,
                            !.blobPath = Str(<<"schematics", "/", "c.png">>)],
    [EmptyDescriptor EXCEPT !.name = PlanName,
                            !.dataUrl = Str(<<"data:", "image/webp", ";base64,", "MID64">>)],
    [EmptyDescriptor EXCEPT !.url = BlobUrl, !.bytes = Num(3),
                            !.mimeType = Str(<<"IMAGE/PNG">>),
                            !.blobPathname = Str(<<"/", "schematics", "/", "b.png">>)],
    [EmptyDescriptor EXCEPT !.url = PlainUrl, !.s3Key = StoredKey,
                            !.detail = Str(<<"ultra">>)],
    [EmptyDescriptor EXCEPT !.url = Str(<<" ">>), !.s3Key = StoredKey,
                            !.size = Num(MAX_UPLOAD_BYTES + 1)],
    [EmptyDescriptor EXCEPT !.name = PlanName, !.s3Key = StoredKey],
    [EmptyDescriptor EXCEPT !.name = PlanName, !.s3Key = Str(<<"/">>)] }

\* The descriptors that carry a buffer: those POST builds from files, and the
\* other shapes normalizeUploads accepts.
BufferDescriptors ==
  { [EmptyDescriptor EXCEPT !.name = PlanName, !.buffer = SmallBuffer],
    [EmptyDescriptor EXCEPT !.name = PlanName, !.buffer = SmallBuffer,
                            !.mimeType = Str(<<>>)],
    [EmptyDescriptor EXCEPT !.name = PlanName, !.buffer = SmallBuffer,
                            !.mimeType = Str(<<"IMAGE/PNG">>), !.bytes = Num(3)],
    [EmptyDescriptor EXCEPT !.name = PlanName, !.buffer = SmallBuffer,
                            !.mimeType = Str(<<"IMAGE/PNG">>), !.bytes = Num(3),
                            !.dataUrl = PaddedDataUrl],
    [EmptyDescriptor EXCEPT !.name = PlanName, !.buffer = BigBuffer],
    [EmptyDescriptor EXCEPT !.name = PlanName, !.buffer = BigBuffer,
                            !.bytes = Num(1)],
    [EmptyDescriptor EXCEPT !.name = PlanName, !.buffer = SmallBuffer,
                            !.size = Num(MAX_UPLOAD_BYTES + 1)],
    [EmptyDescriptor EXCEPT !.buffer = SmallBuffer, !.url = PlainUrl],
    [EmptyDescriptor EXCEPT !.buffer = SmallBuffer, !.dataUrl = PaddedDataUrl,
                            !.mimeType = Str(<<>>)],
    [EmptyDescriptor EXCEPT !.buffer = SmallBuffer, !.s3Key = StoredKey],
    [EmptyDescriptor EXCEPT !.name = PlanName, !.buffer = Buf(<<>>),
                            !.type = Str(<<"image/webp">>)] }

\* The sequences over S of length at most n.
SeqsUpTo(S, n) == UNION {[1..k -> S] : k \in 0..n}

\* The sequences over S that are longer than MAX_UPLOAD_COUNT.
LongSeqs(S) == UNION {[1..k -> S] : k \in (MAX_UPLOAD_COUNT + 1)..MaxLongUploads}

\* The descriptors of the long upload lists: a remote URL, a buffer, and a
\* descriptor with no source.
UrlDescriptor == [EmptyDescriptor EXCEPT !.name = Str(<<" ", "B", " ">>), !.url = PlainUrl]
BufferDescriptor == [EmptyDescriptor EXCEPT !.name = PlanName, !.buffer = SmallBuffer]
NoSourceDescriptor == [EmptyDescriptor EXCEPT !.name = PlanName]

\* The file of the long multipart requests.
LongFormFiles ==
  { [key |-> "file1", value |-> [t |-> "file", name |-> <<"plan", ".png">>,
                                 type |-> <<"image/png">>, b64 |-> <<"AAAA">>]] }

\* The files of a multipart request.
FormFiles ==
  { [key |-> "file1", value |-> [t |-> "file", name |-> <<"plan", ".png">>,
                                 type |-> <<"image/png">>, b64 |-> <<"AAAA">>]],
    [key |-> "scan", value |-> [t |-> "file", name |-> <<"scan", ".PNG">>,
                                type |-> <<>>, b64 |-> <<"AQID">>]],
    [key |-> "file3", value |-> [t |-> "file", name |-> <<"wide", ".tiff">>,
                                 type |-> <<"image/tiff">>, b64 |-> <<"MID64">>]],
    [key |-> "file2", value |-> [t |-> "file", name |-> <<>>,
                                 type |-> <<>>, b64 |-> <<"BIG64">>]],
    [key |-> "empty", value |-> [t |-> "file", name |-> <<"e", ".png">>,
                                 type |-> <<"image/png">>, b64 |-> <<>>]] }

\* The text and file fields of a multipart request, before its uploads.
FormPrompts ==
  { <<>>,
    << [key |-> "prompt", value |-> Str(<<" ">>)] >>,
    << [key |-> "prompt", value |-> Str(<<" ", "Where", " ">>)] >>,
    << [key |-> "question", value |-> Str(<<"Alt">>)] >>,
    << [key |-> "prompt", value |-> Str(<<>>)],
       [key |-> "question", value |-> Str(<<"Alt">>)] >>,
    << [key |-> "prompt", value |-> [t |-> "file", name |-> <<"q", ".txt">>,
                                     type |-> <<"text/plain">>, b64 |-> <<"UVVF">>]] >> }

FormOptions ==
  { <<>>,
    << [key |-> "detail", value |-> Str(<<" ", "low">>)],
       [key |-> "uploadsMeta", value |-> Str(<<"META-OBJ">>)] >>,
    << [key |-> "uploadsMeta", value |-> Str(<<"META-ARR">>)] >>,
    << [key |-> "detail", value |-> Str(<<" ">>)],
       [key |-> "uploadsMeta", value |-> Str(<<"{oops">>)] >> }

MultipartRequests ==
  { [mode |-> "multipart", parses |-> FALSE, form |-> <<>>, body |-> Undef] }
  \cup { [mode |-> "multipart", parses |-> TRUE, form |-> p \o o \o f, body |-> Undef] :
           p \in FormPrompts, o \in FormOptions, f \in SeqsUpTo(FormFiles, MaxUploads) }
  \cup { [mode |-> "multipart", parses |-> TRUE,
          form |-> << [key |-> "prompt", value |-> Str(<<" ", "Where", " ">>)] >> \o f,
          body |-> Undef] : f \in LongSeqs(LongFormFiles) }

JsonPrompts == { Undef, Num(5), Str(<<" ">>), Str(<<" ", "Where", " ">>) }

JsonBodies ==
  { Null, Num(5) }
  \cup { [t |-> "object", prompt |-> p, question |-> Str(<<"Alt">>), uploads |-> Undef] :
           p \in JsonPrompts }
  \cup { [t |-> "object", prompt |-> Str(<<" ", "Where", " ">>), question |-> Undef,
          uploads |-> [t |-> "array", items |-> u]] :
           u \in SeqsUpTo(JsonDescriptors, MaxUploads)
               \cup LongSeqs({UrlDescriptor, NoSourceDescriptor}) }

JsonRequests ==
  { [mode |-> "json", parses |-> FALSE, form |-> <<>>, body |-> Undef] }
  \cup { [mode |-> "json", parses |-> TRUE, form |-> <<>>, body |-> b] : b \in JsonBodies }

\* A call of buildImageInputs that is not made by POST.
DirectCall == [mode |-> "direct", parses |-> TRUE, form |-> <<>>, body |-> Undef]

Environments == [apiKey : BOOLEAN, s3Client : BOOLEAN]

\* BLOB_READ_WRITE_TOKEN as the environment can hold it.
BlobEnvs ==
  { Undef, Str(<<>>), Str(<<"'", "'">>), Str(<<" ", "\"", "rw-token", "\"">>) }

\* The requests POST /api/uploads can receive.
UploadsRequests ==
  { [parses |-> FALSE, body |-> Undef],
    [parses |-> TRUE, body |-> Null],
    [parses |-> TRUE, body |-> Num(5)] }
  \cup { [parses |-> TRUE,
          body |-> [t |-> "object", filename |-> f, contentType |-> c, size |-> z]] :
           f \in { Undef, Num(5), Str(<<" ">>), Str(<<" ", "plan", ".png", " ">>),
                   Str(<<"scan", ".PNG">>), Str(<<"anim", ".gif">>),
                   Str(<<"photo", ".jpeg">>), Str(<<"notes">>) },
           c \in { Undef, Str(<<>>), Str(<<" ", "image/png", " ">>),
                   Str(<<"IMAGE/PNG">>), Str(<<"text/plain">>),
                   Str(<<"image/tiff">>) },
           z \in { Undef, Num(0), Num(MAX_UPLOAD_BYTES), Num(MAX_UPLOAD_BYTES + 1),
                   Str(<<"99999999999">>) } }

(***************************************************************************)
(* Specifications                                                          *)
(***************************************************************************)
InitBuild ==
  /\ normalizedUploads = <<>>
  /\ idx = 1
  /\ loc = NoLocals
  /\ contents = <<>>
  /\ uploadSummaries = <<>>
  /\ inflight = NoCall
  /\ s3Log = <<>>
  /\ nextUuid = 1
  /\ thrown = NoError
  /\ modelCalls = <<>>
  /\ response = NoResponse

\* No request is at POST /api/uploads.
InitUploadsIdle ==
  /\ blobEnv = Undef
  /\ uploadsReq = [parses |-> FALSE, body |-> Undef]
  /\ uploadsPc = "idle"
  /\ blobUuid = 1
  /\ tokenCalls = <<>>
  /\ uploadsResponse = NoUploadsResponse

\* The page as first rendered (lines 20-26).
InitPageIdle ==
  /\ uploads = <<>>
  /\ isUploadingFiles = FALSE
  /\ uploadError = Null
  /\ change = NoChange
  /\ blobPuts = <<>>
  /\ nextId = 1
  /\ events = [selections |-> 0, removals |-> 0]
  /\ pageResponse = Null
  /\ pageError = Null

\* No request is at POST /api/analyze.
InitAnalyzeIdle ==
  /\ env = [apiKey |-> TRUE, s3Client |-> FALSE]
  /\ req = DirectCall
  /\ pc = "idle"
  /\ question = <<>>
  /\ uploadPayloads = <<>>
  /\ InitBuild

\* A request arrives at POST /api/analyze.
Init ==
  /\ InitUploadsIdle
  /\ InitPageIdle
  /\ env \in Environments
  /\ req \in MultipartRequests \cup JsonRequests
  /\ pc = "start"
  /\ question = <<>>
  /\ uploadPayloads = <<>>
  /\ InitBuild

Next == PostNext \/ BuildNext

Spec == Init /\ [][Next]_vars

\* buildImageInputs is called on a list of descriptors of any shape.
InitFn ==
  /\ InitUploadsIdle
  /\ InitPageIdle
  /\ env \in {e \in Environments : e.apiKey}
  /\ req = DirectCall
  /\ pc = "build"
  /\ question = <<"Where">>
  /\ uploadPayloads \in
       SeqsUpTo(JsonDescriptors \cup BufferDescriptors, MaxUploads)
       \cup LongSeqs({UrlDescriptor, BufferDescriptor})
  /\ InitBuild

SpecFn == InitFn /\ [][BuildNext]_vars

\* The page posts to /api/analyze and shows the answer.
SpecView == Init /\ [][PostNext \/ BuildNext \/ ReceiveResponse]_vars

\* A request arrives at POST /api/uploads.
InitUploads ==
  /\ InitAnalyzeIdle
  /\ InitPageIdle
  /\ blobEnv \in BlobEnvs
  /\ uploadsReq \in UploadsRequests
  /\ uploadsPc = "start"
  /\ blobUuid = 1
  /\ tokenCalls = <<>>
  /\ uploadsResponse = NoUploadsResponse

SpecUploads == InitUploads /\ [][UploadsNext]_vars

\* A page session: files are selected and uploaded through /api/uploads and
\* blob storage, and uploads are removed.
InitPage ==
  /\ InitAnalyzeIdle
  /\ InitPageIdle
  /\ blobEnv \in {Undef, Str(<<"rw-token">>)}
  /\ uploadsReq = [parses |-> FALSE, body |-> Undef]
  /\ uploadsPc = "idle"
  /\ blobUuid = 1
  /\ tokenCalls = <<>>
  /\ uploadsResponse = NoUploadsResponse

\* The page and the route it calls.  The requests of the page always parse,
\* name a file and report a size under the page's own cap, so the three
\* rejections of the route for those cases are never enabled here.
PageNext ==
  \/ ChangeNoSlots
  \/ ChangeOversize
  \/ ChangeStart
  \/ RequestToken
  \/ TokenReplied
  \/ BlobPutComplete
  \/ ChangeFinish
  \/ RemoveUpload
  \/ UploadsRejectNoToken
  \/ UploadsRejectUnsupported
  \/ UploadsMintStart
  \/ UploadsMintComplete

SpecPage == InitPage /\ [][PageNext]_vars

(***************************************************************************)
(* Properties                                                              *)
(***************************************************************************)
\* The errors normalizeUploads raises for a descriptor the client got wrong.
ValidationErrorKinds == {"exceeds-limit", "invalid-data-url", "no-source"}

\* What normalizeUploads returned for the descriptors of the request (the
\* buffers of normalizedUploads are cleared as the loop goes).
Normalized == normalizeUploads(uploadPayloads).list

\* The request is over and was refused for a client input error: a body that
\* does not parse, an empty prompt, or a descriptor that fails validation.
ClientInputError ==
  /\ pc = "done"
  /\ env.apiKey
  /\ \/ ~req.parses
     \/ /\ req.parses
        /\ ~(req.mode = "json" /\ JsonPromptThrows(req.body))
        /\ question = <<>>
     \/ thrown.kind \in ValidationErrorKinds

\* C1: every client input error (empty prompt, malformed JSON, malformed
\* multipart, oversized upload, malformed data URL, upload with no resolvable
\* source) is answered with a 400-class status and a message, and nothing of
\* the request is processed (no storage call, no model call).
C1_ClientErrorsGet400 ==
  ClientInputError =>
    /\ response.kind = "json"
    /\ response.status \in 400..499
    /\ response.error # ""
    /\ s3Log = <<>>
    /\ modelCalls = <<>>

\* A JSON request with a non-empty prompt and one upload that carries a valid
\* data URL and a reported bytes value above MAX_UPLOAD_BYTES.
OversizeReportRequest ==
  /\ req.mode = "json"
  /\ req.parses
  /\ IsStr(Prop(req.body, "prompt"))
  /\ Trim(Prop(req.body, "prompt").s) # <<>>
  /\ Prop(req.body, "uploads").t = "array"
  /\ LET items == Prop(req.body, "uploads").items IN
     /\ Len(items) = 1
     /\ items[1].t = "object"
     /\ IsStr(items[1].dataUrl)
     /\ DataUrlMatch(Trim(items[1].dataUrl.s)).matched
     /\ IsNum(items[1].bytes)
     /\ items[1].bytes.n > MAX_UPLOAD_BYTES

\* C2: a JSON request with a non-empty prompt and one upload with a valid data
\* URL and reported bytes above the cap gets a 400 response, and the model is
\* never called for it.
C2_OversizeReportGets400 ==
  (env.apiKey /\ OversizeReportRequest) =>
    /\ modelCalls = <<>>
    /\ pc = "done" => response.status = 400

\* Descriptor k resolves as a buffer whose size exceeds the cap.
OversizedBufferAt(k) ==
  /\ uploadPayloads[k].t = "object"
  /\ IsBuf(uploadPayloads[k].buffer)
  /\ BufferLength(uploadPayloads[k].buffer) > MAX_UPLOAD_BYTES

\* The upload list with the buffer of descriptor k raised past the cap.
WithBufferRaised(k) ==
  [uploadPayloads EXCEPT ![k].buffer = Buf(@.b64 \o <<"BIG64">>)]

C4_FailuresAreJsonErrors ==
  pc = "done" =>
    /\ response.kind = "json"
    /\ \/ response.status = 200
       \/ /\ response.status >= 400
          /\ response.error # ""
          /\ response.uploadSummaries = <<>>
          /\ response.uploadsAttached = 0

\* Upload k went through the loop: its summary and its contents are pushed.
Delivered(k) == k \in 1..Len(uploadSummaries)

StrategyOf(k) == uploadSummaries[k].strategy

\* The image reference of upload k in the contents (label at 2k-1, image at 2k).
ImageRef(k) == contents[2 * k].image_url

\* The completed storage calls made for upload k.
StorageCallsFor(k) == {i \in 1..Len(s3Log) : s3Log[i].upload = k}

PassthroughTags == {Str(<<"remote-url">>), Str(<<"vercel-blob">>)}
InlineTag == Str(<<"inline">>)

\* The descriptor carries a remote URL.
CarriesRemoteUrl(d) == d.t = "object" /\ IsStr(d.url) /\ Trim(d.url.s) # <<>>

\* The descriptor carries a buffer or a data URL.
CarriesBytes(d) ==
  d.t = "object" /\ (IsBuf(d.buffer) \/ (IsStr(d.dataUrl) /\ Trim(d.dataUrl.s) # <<>>))

\* What the claim says of a descriptor that carries a remote URL.
PassedThrough(k) ==
  /\ StorageCallsFor(k) = {}
  /\ inflight.upload # k
  /\ Delivered(k) =>
       /\ StrategyOf(k) \in PassthroughTags
       /\ ImageRef(k) = Str(Trim(uploadPayloads[k].url.s))

FlagsOf(u) ==
  <<Truthy(u.remoteUrl), Truthy(u.s3Key), Truthy(u.buffer), env.s3Client>>

\* The remote URL of a normalized upload names the blob-storage domain.
BlobFlagOf(u) == Truthy(u.remoteUrl) /\ IsBlobUrl(u.remoteUrl.s)

Flags(k) == FlagsOf(Normalized[k])

BlobFlag(k) == BlobFlagOf(Normalized[k])

\* A signing call made for upload k returned a URL.
SignedFor(k) == \E i \in StorageCallsFor(k) : s3Log[i].op = "sign" /\ s3Log[i].ok

\* C6 as claimed: the strategy is a function of the four flags alone, whatever
\* the outcome of the storage calls and the other fields.
C6_StrategyFromFlagsAlone ==
  LET N == Normalized IN
  \A j, k \in 1..Len(uploadSummaries) :
    FlagsOf(N[j]) = FlagsOf(N[k]) => StrategyOf(j) = StrategyOf(k)

\* C6 as amended: the strategy is a function of the four flags, of whether the
\* remote URL names the blob-storage domain, and of whether the storage calls
\* made for the upload produced a signed URL; no other field of the upload
\* changes it.
C6_StrategyFromFlagsAndOutcome ==
  LET N == Normalized IN
  \A j, k \in 1..Len(uploadSummaries) :
    (/\ j # k
     /\ FlagsOf(N[j]) = FlagsOf(N[k])
     /\ BlobFlagOf(N[j]) = BlobFlagOf(N[k])
     /\ SignedFor(j) = SignedFor(k))
      => StrategyOf(j) = StrategyOf(k)

C6_Witness ==
  \E j, k \in 1..Len(uploadSummaries) :
    /\ j # k
    /\ Flags(j) = Flags(k)
    /\ BlobFlag(j) = BlobFlag(k)
    /\ SignedFor(j) = SignedFor(k)
    /\ Normalized[j].mimeType # Normalized[k].mimeType
    /\ Normalized[j].dataUrl # Normalized[k].dataUrl
    /\ Truthy(Normalized[j].buffer)
    /\ env.s3Client
    /\ StrategyOf(j) = InlineTag

\* normalizeUploads resolved upload k as a buffer or as a data URL.
ResolvedAsBytes(k) == Truthy(Normalized[k].buffer)

OffloadFailedFor(k) ==
  ResolvedAsBytes(k) /\ \E i \in StorageCallsFor(k) : ~s3Log[i].ok

KeyUpload(k) == Truthy(Normalized[k].s3Key)

\* The request was aborted at upload k with the error that names it: nothing
\* is recorded for k or for a later upload, and the model is not called.
AbortedAt(k) ==
  /\ pc \in {"threw", "done"}
  /\ thrown = Err("s3-load-failed", Normalized[k].name)
  /\ idx = k
  /\ Len(uploadSummaries) = k - 1
  /\ Len(contents) = 2 * (k - 1)
  /\ \A i \in 1..Len(s3Log) : s3Log[i].upload <= k
  /\ \A i \in StorageCallsFor(k) : s3Log[i].op = "sign"
  /\ inflight = NoCall
  /\ modelCalls = <<>>
  /\ pc = "done" => response = ErrorResponse(500, "Vision request failed.", thrown)

\* C9: if signing a URL for an upload resolved as a storage key fails (no
\* storage client, or the signing call throws), the request is aborted with an
\* error naming that upload: no fallback strategy is tried for it, no later
\* upload is processed, the model is not called.
C9_KeySigningFailureAborts ==
  /\ \A k \in 1..Len(Normalized) :
       (KeyUpload(k) /\ ~env.s3Client) => (idx <= k /\ ~Delivered(k))
  /\ \A i \in 1..Len(s3Log) :
       (s3Log[i].op = "sign" /\ ~s3Log[i].ok /\ KeyUpload(s3Log[i].upload)) =>
         (i = Len(s3Log) /\ AbortedAt(s3Log[i].upload))
  /\ thrown.kind = "s3-load-failed" => (KeyUpload(idx) /\ AbortedAt(idx))

C9_Witness ==
  /\ pc = "done"
  /\ thrown.kind = "s3-load-failed"
  /\ s3Log # <<>>
  /\ ~s3Log[Len(s3Log)].ok
  /\ Len(Normalized) > idx
  /\ response.status = 500

\* The size above which the README says an upload is offloaded (about 6 MB).
OFFLOAD_THRESHOLD_BYTES == 6291456

\* C10: with storage configured, uploads larger than about 6 MB are put to S3
\* and the model gets a signed URL; smaller uploads stay inline, with no
\* put-object call.
C10_OffloadOnlyAboveThreshold ==
  env.s3Client =>
    \A k \in 1..Len(Normalized) :
      ResolvedAsBytes(k) =>
        IF Normalized[k].bytes.n > OFFLOAD_THRESHOLD_BYTES
        THEN Delivered(k) =>
               /\ StrategyOf(k) = Str(<<"s3">>)
               /\ ImageRef(k) = uploadSummaries[k].url
        ELSE /\ StorageCallsFor(k) = {}
             /\ inflight.upload # k
             /\ Delivered(k) => StrategyOf(k) = InlineTag

\* The descriptor is an object whose name, if any, is a string: the callback
\* of normalizeUploads reaches the resolution of its source.
WellFormed(d) == d.t = "object" /\ (Nullish(d.name) \/ IsStr(d.name))

\* The highest-priority source the descriptor carries: a buffer, else a
\* non-blank data URL, else a non-blank remote URL, else a storage key that is
\* not blank once trimmed of blanks and slashes.
TopSource(d) ==
  IF IsBuf(d.buffer) THEN "buffer"
  ELSE IF IsStr(d.dataUrl) /\ Trim(d.dataUrl.s) # <<>> THEN "dataUrl"
  ELSE IF IsStr(d.url) /\ Trim(d.url.s) # <<>> THEN "url"
  ELSE IF IsStr(d.s3Key) /\ StripTrailingSlashes(StripLeadingSlashes(Trim(d.s3Key.s))) # <<>>
       THEN "s3Key"
  ELSE "none"

\* The outcome r of the callback is the one of the branch of source top: the
\* normalized upload carries that source and no lower-priority one, or the
\* error is one that branch raises.
ResolvedFrom(d, r, top) ==
  CASE top = "buffer" ->
         IF r.ok
         THEN r.v.buffer = d.buffer /\ ~Truthy(r.v.remoteUrl) /\ ~Truthy(r.v.s3Key)
         ELSE r.error.kind = "exceeds-limit"
    [] top = "dataUrl" ->
         IF r.ok
         THEN /\ r.v.dataUrl = Str(Trim(d.dataUrl.s))
              /\ IsBuf(r.v.buffer)
              /\ r.v.bytes = Num(BufferLength(r.v.buffer))
              /\ ~Truthy(r.v.remoteUrl)
              /\ ~Truthy(r.v.s3Key)
         ELSE r.error.kind \in {"invalid-data-url", "exceeds-limit"}
    [] top = "url" ->
         /\ r.ok
         /\ r.v.remoteUrl = Str(Trim(d.url.s))
         /\ ~Truthy(r.v.buffer)
         /\ ~Truthy(r.v.dataUrl)
         /\ ~Truthy(r.v.s3Key)
    [] top = "s3Key" ->
         /\ r.ok
         /\ r.v.s3Key = trimSlashes(Str(Trim(d.s3Key.s)))
         /\ ~Truthy(r.v.buffer)
         /\ ~Truthy(r.v.dataUrl)
         /\ ~Truthy(r.v.remoteUrl)
    [] OTHER -> ~r.ok /\ r.error.kind = "no-source"

\* The positions of the descriptors normalizeUploads keeps.
KeptIndexes == {k \in 1..Len(uploadPayloads) : k <= MAX_UPLOAD_COUNT}

\* Descriptor k is the first one whose callback throws.
FirstBad(k) ==
  /\ ~NormalizeOne(uploadPayloads[k], k - 1).ok
  /\ \A j \in 1..(k - 1) : NormalizeOne(uploadPayloads[j], j - 1).ok

\* C11: normalizeUploads resolves the source of each descriptor with the
\* priority buffer > data URL > remote URL > storage key: for every combination
\* of present fields the normalized upload (or the error raised) is the one of
\* the highest-priority source present, in the list buildImageInputs receives
\* and in the error it throws.
C11_SourcePriority ==
  \A k \in KeptIndexes :
    LET d == uploadPayloads[k] IN
    WellFormed(d) =>
      /\ ResolvedFrom(d, NormalizeOne(d, k - 1), TopSource(d))
      /\ (pc = "loop" /\ idx = 1) =>
           ResolvedFrom(d, [ok |-> TRUE, v |-> normalizedUploads[k]], TopSource(d))
      /\ (thrown # NoError /\ normalizedUploads = <<>> /\ FirstBad(k)) =>
           ResolvedFrom(d, [ok |-> FALSE, error |-> thrown], TopSource(d))

C11_Witness ==
  /\ pc = "loop"
  /\ idx = 1
  /\ Len(uploadPayloads) = 2
  /\ TopSource(uploadPayloads[1]) = "buffer"
  /\ CarriesRemoteUrl(uploadPayloads[1])
  /\ TopSource(uploadPayloads[2]) = "s3Key"
  /\ IsStr(uploadPayloads[2].url)

\* The descriptor with its sources of lower priority than top removed.
WithoutLowerSources(d, top) ==
  CASE top = "buffer" -> [d EXCEPT !.dataUrl = Undef, !.url = Undef, !.s3Key = Undef]
    [] top = "dataUrl" -> [d EXCEPT !.url = Undef, !.s3Key = Undef]
    [] top = "url" -> [d EXCEPT !.s3Key = Undef]
    [] OTHER -> d

\* Two descriptors that resolve from the same source and differ only in
\* source fields of lower priority.
DifferOnlyInLowerSources(a, b) ==
  /\ WellFormed(a)
  /\ WellFormed(b)
  /\ a # b
  /\ TopSource(a) = TopSource(b)
  /\ WithoutLowerSources(a, TopSource(a)) = WithoutLowerSources(b, TopSource(b))

\* The summary of upload k without what depends on its position in the list
\* (the id, the default name) and on the identifier drawn for an offload.
SummaryOfSource(k) ==
  LET s == uploadSummaries[k] IN
  [s EXCEPT !.id = <<>>,
            !.name = IF @ = <<"Uploaded image ", OrdinalTok(k)>> THEN <<>> ELSE @,
            !.key = IF s.strategy = Str(<<"s3">>) THEN Undef ELSE @,
            !.url = IF s.strategy = Str(<<"s3">>) THEN Undef ELSE @]

C13_AtMostMaxUploadCount ==
  /\ Len(Normalized) <= MAX_UPLOAD_COUNT
  /\ Len(normalizedUploads) <= MAX_UPLOAD_COUNT
  /\ Len(uploadSummaries) <= MAX_UPLOAD_COUNT
  /\ UploadsAttached(contents) <= MAX_UPLOAD_COUNT
  /\ \A i \in 1..Len(modelCalls) :
       UploadsAttached(modelCalls[i].images) <= MAX_UPLOAD_COUNT
  /\ (pc = "done" /\ response.kind = "json") =>
       /\ Len(response.uploadSummaries) <= MAX_UPLOAD_COUNT
       /\ response.uploadsAttached <= MAX_UPLOAD_COUNT

C13_Witness ==
  /\ pc = "done"
  /\ Len(uploadPayloads) > MAX_UPLOAD_COUNT
  /\ response.kind = "json"
  /\ response.status = 200
  /\ Len(response.uploadSummaries) = MAX_UPLOAD_COUNT
  /\ response.uploadsAttached = MAX_UPLOAD_COUNT

\* The image references the normalized upload u can be delivered by, given
\* its summary: its remote URL, its data URL, the data URL of its buffer, the
\* signed URL of its storage key, the signed URL of the object it was
\* offloaded to.
ImageRefsOf(u, summary) ==
  {u.remoteUrl, u.dataUrl}
  \cup (IF Truthy(u.buffer) /\ Truthy(u.mimeType)
        THEN {bufferToDataUrl(u.buffer, u.mimeType)} ELSE {})
  \cup (IF Truthy(u.s3Key) THEN {SignedUrl(u.s3Key)} ELSE {})
  \cup (IF Truthy(u.buffer) /\ Truthy(summary.key) THEN {SignedUrl(summary.key)} ELSE {})

\* The k-th summary and the k-th label/image pair are those of the k-th
\* normalized upload u.
InInputOrder(k, u) ==
  /\ uploadSummaries[k].id = <<"upload-", OrdinalTok(k)>>
  /\ uploadSummaries[k].id = u.id
  /\ uploadSummaries[k].name = u.name
  /\ contents[2 * k - 1].type = "input_text"
  /\ contents[2 * k - 1].text = <<"Uploaded ">> \o u.id \o <<": ">> \o u.name
  /\ contents[2 * k].type = "input_image"
  /\ contents[2 * k].detail = u.detail
  /\ Truthy(ImageRef(k))
  /\ ImageRef(k) \in ImageRefsOf(u, uploadSummaries[k])
  /\ SignedFor(k) =>
       \A i \in StorageCallsFor(k) :
         s3Log[i].key \in {uploadSummaries[k].key, trimSlashes(u.s3Key)}

\* C14: the upload image references handed to the model, and the upload
\* summaries, follow the input order: the k-th accepted descriptor yields the
\* k-th label/image pair and the k-th summary, whichever strategy each upload
\* used and whether or not an offload failed along the way.
C14_InputOrderKept ==
  LET N == Normalized IN
  /\ Len(contents) = 2 * Len(uploadSummaries)
  /\ Len(uploadSummaries) <= Len(N)
  /\ \A k \in 1..Len(uploadSummaries) : InInputOrder(k, N[k])
  /\ \A i \in 1..Len(modelCalls) : modelCalls[i].images = contents
  /\ (pc = "done" /\ response.kind = "json" /\ response.status = 200) =>
       /\ response.uploadSummaries = uploadSummaries
       /\ Len(uploadSummaries) = Len(N)

C14_Witness ==
  /\ pc = "built"
  /\ Len(uploadSummaries) >= 3
  /\ \E i, j, k \in 1..Len(uploadSummaries) :
       /\ i < j
       /\ j < k
       /\ StrategyOf(i) = InlineTag
       /\ OffloadFailedFor(i)
       /\ StrategyOf(j) = Str(<<"remote-url">>)
       /\ StrategyOf(k) = Str(<<"s3">>)

\* The byte size the descriptor reports is a number outside 0..MAX_UPLOAD_BYTES.
ReportsBadSize(d) ==
  /\ d.t = "object"
  /\ IsNum(ReportedBytes(d))
  /\ (ReportedBytes(d).n < 0 \/ ReportedBytes(d).n > MAX_UPLOAD_BYTES)

\* C15: every normalized upload that carries a byte size has a size in
\* 0..MAX_UPLOAD_BYTES, and a kept descriptor of any source kind whose reported
\* size is outside that range makes normalizeUploads reject the request.
C15_SizesWithinCap ==
  /\ \A k \in 1..Len(normalizedUploads) :
       IsNum(normalizedUploads[k].bytes) =>
         /\ normalizedUploads[k].bytes.n >= 0
         /\ normalizedUploads[k].bytes.n <= MAX_UPLOAD_BYTES
  /\ (\E k \in KeptIndexes : ReportsBadSize(uploadPayloads[k])) =>
       /\ normalizedUploads = <<>>
       /\ pc \notin {"loop", "signKey", "put", "signOffload", "built", "model"}
       /\ modelCalls = <<>>

\* The MIME field the client supplied: mimeType, else type, lower-cased.
SuppliedMime(d) ==
  IF IsStr(d.mimeType) THEN Str(ToLowerCase(d.mimeType.s))
  ELSE IF IsStr(d.type) THEN Str(ToLowerCase(d.type.s))
  ELSE Undef

\* The MIME type of the priority explicit field > extension of the display
\* name > generic fallback.
MimeByPriority(d, name) ==
  IF IsStr(SuppliedMime(d)) THEN SuppliedMime(d)
  ELSE IF IsStr(MIME_LOOKUP(ToLowerCase(extname(name))))
       THEN MIME_LOOKUP(ToLowerCase(extname(name)))
  ELSE Str(<<"application/octet-stream">>)

\* The normalized uploads are those of the descriptors, before any buffer is
\* cleared.
JustNormalized == pc = "loop" /\ idx = 1

\* C16 as claimed: the MIME type of every normalized upload, whatever its
\* source, is the explicit field, else the lookup of the display name's
\* extension, else application/octet-stream.
C16_MimePriorityForEveryUpload ==
  JustNormalized =>
    \A k \in 1..Len(normalizedUploads) :
      normalizedUploads[k].mimeType =
        MimeByPriority(uploadPayloads[k], normalizedUploads[k].name)

\* C16 as amended: the MIME type of an upload resolved as a buffer is the
\* explicit MIME field (mimeType, else type) lower-cased whenever that field
\* is a string, even an empty one; else the lookup of the display name's
\* extension; else application/octet-stream.  An upload resolved as a data
\* URL has the MIME type written in the data URL, lower-cased, and an upload
\* resolved as a remote URL or a storage key has the explicit field or none.
C16_MimePriorityPerSource ==
  JustNormalized =>
    \A k \in 1..Len(normalizedUploads) :
      LET d == uploadPayloads[k]
          u == normalizedUploads[k]
          top == TopSource(d)
      IN CASE top = "buffer" -> u.mimeType = MimeByPriority(d, u.name)
           [] top = "dataUrl" ->
                u.mimeType = Str(ToLowerCase(DataUrlMatch(Trim(d.dataUrl.s)).mime))
           [] OTHER -> u.mimeType = SuppliedMime(d)

C16_Witness ==
  /\ JustNormalized
  /\ Len(normalizedUploads) = 2
  /\ TopSource(uploadPayloads[1]) = "buffer"
  /\ IsStr(SuppliedMime(uploadPayloads[1]))
  /\ MIME_LOOKUP(ToLowerCase(extname(normalizedUploads[1].name)))
       \notin {Undef, SuppliedMime(uploadPayloads[1])}
  /\ normalizedUploads[1].mimeType = SuppliedMime(uploadPayloads[1])
  /\ TopSource(uploadPayloads[2]) = "buffer"
  /\ normalizedUploads[2].mimeType = Str(<<"application/octet-stream">>)

\* The detail levels of the model's image input.
DetailLevels == {Str(<<"low">>), Str(<<"high">>), Str(<<"auto">>)}

\* C17: the detail level of every normalized upload, and of every upload image
\* reference sent to the model, is one of low, high, auto; it is high when the
\* descriptor gives none.
C17_DetailIsEnum ==
  /\ \A k \in 1..Len(normalizedUploads) :
       /\ normalizedUploads[k].detail \in DetailLevels
       /\ Nullish(uploadPayloads[k].detail) =>
            normalizedUploads[k].detail = Str(<<"high">>)
  /\ \A i \in 1..Len(modelCalls) :
       \A k \in 1..Len(modelCalls[i].images) :
         modelCalls[i].images[k].type = "input_image" =>
           modelCalls[i].images[k].detail \in DetailLevels

\* The field the question is to be taken from: prompt or, when that is absent,
\* question.
QuestionField ==
  IF req.mode = "multipart"
  THEN Coalesce(FormGet(req.form, "prompt"), FormGet(req.form, "question"))
  ELSE Coalesce(Prop(req.body, "prompt"), Prop(req.body, "question"))

\* The field used is absent, or empty after trimming.
QuestionFieldBlank ==
  \/ Nullish(QuestionField)
  \/ IsStr(QuestionField) /\ Trim(QuestionField.s) = <<>>
  \/ QuestionField.t = "file" /\ Trim(FileText(QuestionField)) = <<>>

\* C18: in JSON and in multipart mode the question is taken from the prompt
\* field or, when that is absent, from the question field, and a request is
\* rejected with 400 'Prompt is required.' and no model call exactly when the
\* field used is absent or empty after trimming (of the requests whose body is
\* an object with a prompt that is a string or absent).
C18_PromptOrQuestion ==
  (/\ pc = "done"
   /\ env.apiKey
   /\ req.parses
   /\ ~(req.mode = "json" /\ JsonPromptThrows(req.body))) =>
    /\ QuestionFieldBlank <=>
         /\ response = ErrorResponse(400, "Prompt is required.", NoError)
         /\ modelCalls = <<>>
    /\ (~QuestionFieldBlank /\ IsStr(QuestionField)) =>
         question = Trim(QuestionField.s)

\* The data URL bufferToDataUrl builds from a buffer and a MIME type is
\* accepted by the data-URL branch of normalizeUploads and decodes to the same
\* bytes, with the same MIME type.
RoundTrip(buffer, mimeType) ==
  LET encoded == bufferToDataUrl(buffer, mimeType)
      decoded == NormalizeOne([EmptyDescriptor EXCEPT !.dataUrl = encoded], 0)
  IN /\ decoded.ok
     /\ decoded.v.buffer = buffer
     /\ decoded.v.bytes = Num(BufferLength(buffer))
     /\ decoded.v.mimeType = mimeType

SomeKeptInvalid ==
  \E k \in KeptIndexes : ~NormalizeOne(uploadPayloads[k], k - 1).ok

\* C20: validation fails fast: if any descriptor among those kept by
\* normalizeUploads fails validation, the request is rejected before any
\* network I/O (no put-object call, no signing call, no model call) and
\* nothing is recorded, even when earlier descriptors are valid buffers and
\* storage is configured.
C20_ValidationFailsFast ==
  SomeKeptInvalid =>
    /\ s3Log = <<>>
    /\ inflight = NoCall
    /\ modelCalls = <<>>
    /\ uploadSummaries = <<>>
    /\ contents = <<>>
    /\ normalizedUploads = <<>>
    /\ pc \notin {"loop", "signKey", "put", "signOffload", "built", "model"}
    /\ pc = "threw" => \E k \in KeptIndexes :
                         FirstBad(k) /\ thrown = NormalizeOne(uploadPayloads[k], k - 1).error
    /\ (pc = "done" /\ question # <<>>) =>
         response = ErrorResponse(500, "Vision request failed.", thrown)

C20_Witness ==
  /\ pc = "done"
  /\ env.s3Client
  /\ Len(uploadPayloads) = 2
  /\ IsBuf(uploadPayloads[1].buffer)
  /\ NormalizeOne(uploadPayloads[1], 0).ok
  /\ ~NormalizeOne(uploadPayloads[2], 1).ok
  /\ thrown.kind \in ValidationErrorKinds
  /\ s3Log = <<>>
  /\ response.status = 500

\* The strategy tags a summary can record.
StrategyTags ==
  PassthroughTags \cup {Str(<<"s3-key">>), Str(<<"s3">>), InlineTag}

\* The text is a base64 data URL.
IsDataUrl(v) ==
  /\ IsStr(v)
  /\ Len(v.s) >= 3
  /\ LowerTok(v.s[1]) = "data:"
  /\ \E i \in 2..Len(v.s) : LowerTok(v.s[i]) = ";base64,"

\* The tag of summary k agrees with the reference sent to the model for the
\* k-th normalized upload u.
TagAgrees(k, u) ==
  LET summary == uploadSummaries[k]
      tag == summary.strategy
  IN CASE tag \in PassthroughTags ->
            /\ ImageRef(k) = Str(Trim(uploadPayloads[k].url.s))
            /\ summary.url = ImageRef(k)
       [] tag = Str(<<"s3-key">>) ->
            /\ summary.key = trimSlashes(u.s3Key)
            /\ ImageRef(k) = SignedUrl(summary.key)
            /\ summary.url = ImageRef(k)
       [] tag = Str(<<"s3">>) ->
            /\ \E i \in StorageCallsFor(k) :
                 s3Log[i].op = "put" /\ s3Log[i].ok /\ s3Log[i].key = summary.key
            /\ ImageRef(k) = SignedUrl(summary.key)
            /\ summary.url = ImageRef(k)
       [] tag = InlineTag ->
            /\ IsDataUrl(ImageRef(k))
            /\ ~Truthy(summary.url)
            /\ ~Truthy(summary.key)
       [] OTHER -> FALSE

\* C21: on every successful request uploadSummaries holds exactly one entry
\* per normalized upload, each entry records exactly one strategy tag, and the
\* tag agrees with the reference sent to the model for that upload; no summary
\* lacks a strategy and none is written twice.
C21_OneTaggedSummaryPerUpload ==
  (pc = "done" /\ response.kind = "json" /\ response.status = 200) =>
    LET N == Normalized IN
    /\ response.uploadSummaries = uploadSummaries
    /\ Len(uploadSummaries) = Len(N)
    /\ response.uploadsAttached = Len(N)
    /\ \A k \in 1..Len(uploadSummaries) :
         /\ uploadSummaries[k].id = N[k].id
         /\ uploadSummaries[k].strategy \in StrategyTags
         /\ TagAgrees(k, N[k])
         /\ modelCalls[1].images[2 * k].image_url = ImageRef(k)
    /\ \A j, k \in 1..Len(uploadSummaries) :
         uploadSummaries[j].id = uploadSummaries[k].id => j = k

C21_Witness ==
  /\ pc = "done"
  /\ response.kind = "json"
  /\ response.status = 200
  /\ \E i, j \in 1..Len(uploadSummaries) :
       /\ StrategyOf(i) \in {Str(<<"s3">>), Str(<<"s3-key">>)}
       /\ StrategyOf(j) \in PassthroughTags \cup {InlineTag}

\* The upload list of the request cut to its first MAX_UPLOAD_COUNT
\* descriptors, and what the .map makes of that list alone.
CutList ==
  SubSeq(uploadPayloads, 1, IF Len(uploadPayloads) < MAX_UPLOAD_COUNT
                            THEN Len(uploadPayloads) ELSE MAX_UPLOAD_COUNT)

CutOutcome == MapFrom(CutList, 1, <<>>)

\* buildImageInputs has gone past normalizeUploads.
PastNormalize ==
  \/ pc \in {"loop", "signKey", "put", "signOffload", "built", "model"}
  \/ pc \in {"threw", "done"} /\ thrown # NoError

\* C22: the descriptors beyond the first MAX_UPLOAD_COUNT are dropped silently:
\* they never cause an error and never influence the response, even when they
\* are malformed or name no source.  What the request works on, fails with and
\* answers is what the list cut to its first MAX_UPLOAD_COUNT descriptors
\* gives.
C22_ExtrasDropped ==
  LET cut == CutOutcome IN
  /\ thrown.kind \in ValidationErrorKinds => ~cut.ok /\ thrown = cut.error
  /\ (PastNormalize /\ ~cut.ok) => thrown = cut.error
  /\ (PastNormalize /\ cut.ok) =>
       /\ thrown.kind \notin ValidationErrorKinds
       /\ Len(normalizedUploads) = Len(cut.list)
       /\ \A k \in 1..Len(normalizedUploads) :
            \/ normalizedUploads[k] = cut.list[k]
            \/ normalizedUploads[k] = [cut.list[k] EXCEPT !.buffer = Undef]
       /\ idx <= Len(cut.list) + 1
       /\ Len(uploadSummaries) <= Len(cut.list)
       /\ \A i \in 1..Len(s3Log) : s3Log[i].upload <= Len(cut.list)
  /\ (pc = "done" /\ response.kind = "json" /\ response.status = 200) =>
       /\ cut.ok
       /\ response.uploadsAttached = Len(cut.list)
       /\ Len(response.uploadSummaries) = Len(cut.list)
       /\ \A k \in 1..Len(cut.list) :
            /\ modelCalls[1].images[2 * k - 1].text =
                 <<"Uploaded ">> \o cut.list[k].id \o <<": ">> \o cut.list[k].name
            /\ modelCalls[1].images[2 * k].detail = cut.list[k].detail
            /\ response.uploadSummaries[k].name = cut.list[k].name

C22_Witness ==
  /\ pc = "done"
  /\ response.kind = "json"
  /\ response.status = 200
  /\ \E k \in (MAX_UPLOAD_COUNT + 1)..Len(uploadPayloads) :
       ~NormalizeOne(uploadPayloads[k], k - 1).ok

\* The k-th normalized upload no longer holds a buffer.
BufferCleared(k) == ~Truthy(normalizedUploads[k].buffer)

\* C25: when the model request is issued no normalized upload still holds its
\* buffer: the buffer reference of each upload is cleared once the upload is
\* delivered, whichever strategy was taken (offload, inline after a failed
\* offload, inline without storage).
C25_BuffersClearedBeforeModel ==
  /\ (pc \in {"built", "model"} \/ modelCalls # <<>>) =>
       \A k \in 1..Len(normalizedUploads) : BufferCleared(k)
  /\ \A k \in 1..Len(normalizedUploads) :
       (k < idx \/ Delivered(k)) => BufferCleared(k)

C25_Witness ==
  /\ pc = "model"
  /\ \E k \in 1..Len(normalizedUploads) :
       /\ Truthy(Normalized[k].buffer)
       /\ StrategyOf(k) = InlineTag
       /\ OffloadFailedFor(k)
  /\ \E k \in 1..Len(normalizedUploads) :
       /\ Truthy(Normalized[k].buffer)
       /\ StrategyOf(k) = Str(<<"s3">>)

\* A storage call is in flight.
CallInFlight == inflight # NoCall

\* C26: within one request uploads are delivered strictly one after another:
\* every storage call made for upload k has completed, successfully or with an
\* error, before any storage call for upload k+1 starts, so at most one storage
\* call of the request is in flight at any time.
C26_OneStorageCallAtATime ==
  /\ CallInFlight <=> pc \in {"signKey", "put", "signOffload"}
  /\ CallInFlight =>
       /\ inflight.upload = idx
       /\ Len(uploadSummaries) = idx - 1
       /\ \A i \in 1..Len(s3Log) : s3Log[i].upload <= inflight.upload
  /\ \A i, j \in 1..Len(s3Log) :
       i < j => s3Log[i].upload <= s3Log[j].upload
  /\ \A i \in 1..Len(s3Log) :
       /\ s3Log[i].upload <= idx
       /\ s3Log[i].upload < idx => Delivered(s3Log[i].upload)

C26_Witness ==
  /\ CallInFlight
  /\ inflight.upload = 2
  /\ \E i \in 1..Len(s3Log) : s3Log[i].upload = 1 /\ ~s3Log[i].ok

\* The storage calls of kind op started for upload k: those that completed and
\* the one in flight.
CallsOf(op, k) ==
  Cardinality({i \in 1..Len(s3Log) : s3Log[i].op = op /\ s3Log[i].upload = k})
  + (IF inflight.op = op /\ inflight.upload = k THEN 1 ELSE 0)

\* C27: no operation is retried: within one request each upload triggers at
\* most one put-object call and at most one signing call, a failed storage call
\* is never attempted again (no storage call follows it for the same upload),
\* and the model is called at most once.
C27_NoRetry ==
  /\ \A k \in 1..MAX_UPLOAD_COUNT :
       /\ CallsOf("put", k) <= 1
       /\ CallsOf("sign", k) <= 1
  /\ \A i \in 1..Len(s3Log) :
       ~s3Log[i].ok =>
         /\ \A j \in (i + 1)..Len(s3Log) : s3Log[j].upload # s3Log[i].upload
         /\ inflight.upload # s3Log[i].upload
  /\ Len(modelCalls) <= 1

C27_Witness ==
  /\ pc = "done"
  /\ Len(modelCalls) = 1
  /\ response.status = 500
  /\ \E i, j \in 1..Len(s3Log) :
       /\ s3Log[i].op = "put" /\ ~s3Log[i].ok
       /\ s3Log[j].op = "sign" /\ ~s3Log[j].ok

\* The request failed before the model call: no API key, a body that does not
\* parse, an empty prompt, or an exception other than the model's.
FailedBeforeModel ==
  \/ ~env.apiKey
  \/ ~req.parses
  \/ pc \in {"threw", "done"} /\ thrown.kind \notin {"none", "model-failed"}
  \/ pc = "done" /\ response.kind = "unhandled"
  \/ pc = "done" /\ response.kind = "json" /\ response.status = 400

\* C28: the model is called only after every kept upload has been normalized
\* and delivered: a request that fails at an earlier step (missing API key,
\* unparsable body, empty prompt, validation error, storage-key signing error,
\* no image reference for an upload) never calls the model, and when the model
\* is called its content holds exactly one label/image pair per normalized
\* upload.
C28_ModelCalledAfterDelivery ==
  /\ FailedBeforeModel => modelCalls = <<>>
  /\ pc \in {"start", "prompt", "build", "loop", "signKey", "put", "signOffload",
             "built"} => modelCalls = <<>>
  /\ modelCalls # <<>> =>
       LET r == normalizeUploads(uploadPayloads)
           images == modelCalls[1].images
       IN /\ env.apiKey
          /\ req.parses
          /\ modelCalls[1].question # <<>>
          /\ r.ok
          /\ Len(uploadSummaries) = Len(r.list)
          /\ ~CallInFlight
          /\ Len(images) = 2 * Len(r.list)
          /\ \A k \in 1..Len(r.list) :
               /\ images[2 * k - 1].type = "input_text"
               /\ images[2 * k - 1].text =
                    <<"Uploaded ">> \o r.list[k].id \o <<": ">> \o r.list[k].name
               /\ images[2 * k].type = "input_image"
               /\ Truthy(images[2 * k].image_url)
               /\ images[2 * k].image_url = ImageRef(k)

C28_Witness ==
  /\ pc = "model"
  /\ Len(modelCalls) = 1
  /\ Len(modelCalls[1].images) = 2 * MaxUploads
  /\ \E i \in 1..Len(s3Log) : ~s3Log[i].ok

\* The keys of the objects the request has written to storage.
StoredObjects(log) ==
  {log[i].key : i \in {j \in 1..Len(log) : log[j].op = "put" /\ log[j].ok}}

\* C29: a request can fail during delivery after earlier uploads of the same
\* request were written to object storage: no step of the handler, the error
\* path included, removes an object the request has put, so an error response
\* does not imply that the request left storage unchanged.
C29_PutObjectsStay ==
  [][/\ StoredObjects(s3Log) \subseteq StoredObjects(s3Log')
     /\ Len(s3Log') >= Len(s3Log)
     /\ SubSeq(s3Log', 1, Len(s3Log)) = s3Log
     /\ \A i \in 1..Len(s3Log') : s3Log'[i].op \in {"put", "sign"}
     /\ (pc = "threw" /\ pc' = "done") => s3Log' = s3Log]_vars

C29_Witness ==
  /\ pc = "done"
  /\ response.kind = "json"
  /\ response.status = 500
  /\ thrown.kind \in {"s3-load-failed", "no-image-url"}
  /\ \E i \in 1..Len(s3Log) :
       /\ s3Log[i].op = "put"
       /\ s3Log[i].ok
       /\ s3Log[i].upload < idx
       /\ Delivered(s3Log[i].upload)

\* The file name, the explicit content type and the reported size of a token
\* request, as the claim reads them.
NamedFile(body) ==
  IF IsStr(Prop(body, "filename")) THEN Trim(Prop(body, "filename").s) ELSE <<>>

ExplicitType(body) ==
  IF IsStr(Prop(body, "contentType")) THEN Trim(Prop(body, "contentType").s) ELSE <<>>

ReportedSize(body) ==
  IF IsNum(Prop(body, "size")) THEN Prop(body, "size").n ELSE 0

\* The MIME type by priority: the explicit content type, else the type of the
\* file name's extension, else application/octet-stream.
MimeOfRequest(body) ==
  LET name == NamedFile(body)
      byName == IF Len(name) >= 2
                THEN MIME_LOOKUP(<<LowerTok(name[Len(name)])>>) ELSE Undef
  IN IF ExplicitType(body) # <<>> THEN Str(ExplicitType(body))
     ELSE IF byName # Undef THEN byName
     ELSE Str(<<"application/octet-stream">>)

\* The first check of the route, in order, that the request fails.
FirstFailedCheck ==
  LET body == uploadsReq.body IN
  CASE sanitizeEnv(blobEnv) \in {Undef, Str(<<>>)} -> "token"
    [] OTHER ->
       IF ~uploadsReq.parses THEN "json"
       ELSE IF NamedFile(body) = <<>> THEN "filename"
       ELSE IF ReportedSize(body) > MAX_UPLOAD_BYTES THEN "size"
       ELSE IF EXT_LOOKUP_BY_MIME(MimeOfRequest(body)) = Undef THEN "mime"
       ELSE "none"

\* The status each failed check answers with.
StatusOfCheck(check) == IF check = "token" THEN 500 ELSE 400

\* The pathname ends with a dot and the extension.
EndsWithExtension(pathname, extension) ==
  /\ IsStr(pathname)
  /\ IsStr(extension)
  /\ Len(pathname.s) >= 3
  /\ pathname.s[Len(pathname.s) - 1] = "."
  /\ <<pathname.s[Len(pathname.s)]>> = extension.s

\* C30: POST /api/uploads mints a client token only when all checks pass, in
\* this order: the server token is configured (else 500), the body is valid
\* JSON (else 400), the file name is non-empty after trimming (else 400), a
\* reported size does not exceed MAX_UPLOAD_BYTES (else 400), the inferred MIME
\* type (explicit contentType, else by the file name's extension, else
\* application/octet-stream) is a supported image type (else 400).  In every
\* rejected case the token generator is not called, and the returned pathname
\* ends with the extension mapped from the inferred MIME type.
C30_TokenOnlyAfterChecks ==
  LET check == FirstFailedCheck
      body == uploadsReq.body
  IN /\ tokenCalls # <<>> => check = "none" /\ Len(tokenCalls) = 1
     /\ uploadsPc = "mint" => tokenCalls # <<>>
     /\ (uploadsPc = "done" /\ check # "none") =>
          /\ uploadsResponse.status = StatusOfCheck(check)
          /\ ~Truthy(uploadsResponse.token)
          /\ tokenCalls = <<>>
          /\ uploadsResponse.error =
               CASE check = "token" ->
                      "BLOB_READ_WRITE_TOKEN is not configured on the server."
                 [] check = "json" -> "Invalid JSON payload."
                 [] check = "filename" -> "filename is required."
                 [] check = "size" -> "File exceeds the 45MB limit."
                 [] OTHER -> "Unsupported content type."
     /\ (uploadsPc = "done" /\ check = "none") =>
          /\ Len(tokenCalls) = 1
          /\ uploadsResponse.status \in {200, 500}
          /\ uploadsResponse.status = 500 => ~Truthy(uploadsResponse.token)
          /\ uploadsResponse.status = 200 =>
               /\ Truthy(uploadsResponse.token)
               /\ uploadsResponse.pathname = tokenCalls[1].pathname
               /\ uploadsResponse.contentType = MimeOfRequest(body)
               /\ EndsWithExtension(uploadsResponse.pathname,
                                    EXT_LOOKUP_BY_MIME(MimeOfRequest(body)))

C30_Witness ==
  /\ uploadsPc = "done"
  /\ uploadsResponse.status = 200
  /\ ExplicitType(uploadsReq.body) = <<>>
  /\ Prop(uploadsReq.body, "filename") = Str(<<"scan", ".PNG">>)
  /\ Prop(uploadsReq.body, "size") = Num(MAX_UPLOAD_BYTES)
  /\ EndsWithExtension(uploadsResponse.pathname, Str(<<"png">>))

\* The attached upload holds the URL and the pathname of a put that completed.
FromCompletedPut(upload) ==
  /\ IsStr(upload.url)
  /\ upload.url.s # <<>>
  /\ \E i \in 1..Len(blobPuts) :
       /\ blobPuts[i].url = upload.url
       /\ blobPuts[i].pathname = upload.blobPathname

StoredBytesTags == StrategyTags \ {InlineTag}

\* C23: the page's post-response telemetry shows for each upload summary
\* whether the upload was inlined or offloaded: a row is labelled 'Inline'
\* only when the strategy is inline, and not 'Inline' whenever the model
\* received a URL to stored bytes, for every strategy tag the server returns.
C23_TelemetryShowsDelivery ==
  pageResponse # Null =>
    LET rows == UploadHandling(pageResponse) IN
    \A k \in 1..Len(rows) :
      LET tag == pageResponse.uploadSummaries[k].strategy IN
      /\ rows[k].label = "Inline" => tag = InlineTag
      /\ tag \in StoredBytesTags => rows[k].label # "Inline"

====
